---- MODULE Spec2Model ----
(***************************************************************************)
(* Model of tengu-init: the step library (tengu-provision), the manifest   *)
(* assembler, the idempotent script and the remote execution driver        *)
(* (Baremetal).                                                            *)
(*                                                                         *)
(* Text is modelled as a sequence of atoms (a character, or a piece of     *)
(* text that no operation of the program looks into).  A shell command is  *)
(* a small syntax tree, a tuple whose first element names the construct;   *)
(* Exec gives its effect on a host state and its exit status.              *)
(***************************************************************************)
EXTENDS Integers, Sequences, FiniteSets, TLC

VARIABLES
  \* ---- the driver (Baremetal::provision) --------------------------------
  pc,              \* position inside provision
  self,            \* the Baremetal provider: host, user, port
  config,          \* the TenguConfig the run was started with
  script,          \* the script rendered by generate_script
  total_steps,     \* provision's local total_steps
  attempts,        \* wait_for_ssh's attempts
  sleeps,          \* seconds wait_for_ssh has paused so far
  tries,           \* history: connection attempts wait_for_ssh has seen fail
  phases,          \* history: the phases provision has started, in order
  received,        \* history: the lines read so far from the remote stdout
  current_spinner, \* execute_script's current_spinner (None or a spinner)
  printed,         \* the permanent summary lines printed so far
  opened,          \* history: number of spinners opened
  closed,          \* history: number of spinners finished and cleared
  remote,          \* history: per phase, how its ssh command ended
  result,          \* what provision returned: None, Ok or an error
  warnings,        \* warnings written to stderr
  \* ---- the rendered script running on a host ----------------------------
  host,            \* the remote host's state
  host0,           \* the host's state when the first run began
  spc,             \* position inside the script: <<step index, stage>>
  out,             \* the marker lines the script has written
  ran,             \* history: the steps whose commands were run, per run
  run,             \* 1 for the first run, 2 for the run after an interrupt
  cut,             \* the step after which the first run was interrupted
  exit_code,       \* the script's exit status (None while running)
  \* ---- one step applied to a host ---------------------------------------
  step,            \* the step under test
  applied,         \* how many times its commands were applied
  host1,           \* the host's state after the first application
  \* ---- the manifest assembler --------------------------------------------
  assembled,       \* the manifest assembled from config (None before)
  \* ---- the command line (main.rs) ----------------------------------------
  cli,             \* the invocation: command, flags, credentials by source
  net,             \* the network actions made so far (ssh, hcloud)
  status           \* the process's exit: ended, code, what stderr names

vars == <<pc, self, config, script, total_steps, attempts, sleeps, tries, phases,
          received, current_spinner, printed, opened, closed, remote, result,
          warnings, host, host0, spc, out, ran, run, cut, exit_code,
          step, applied, host1, assembled, cli, net, status>>

driverVars == <<pc, self, config, script, total_steps, attempts, sleeps, tries,
                phases, received, current_spinner, printed, opened, closed, remote,
                result, warnings>>
scriptVars == <<host, host0, spc, out, ran, run, cut, exit_code>>
stepVars == <<step, applied, host1>>
mainVars == <<cli, net, status>>

None == <<"None">>
Some(x) == <<"Some", x>>

\* ---- bounds of the model ----------------------------------------------
\* longest remote output stream the driver is fed
MaxLines == 3
\* most lines an authorized_keys file starts with
MaxKeyLines == 1

(***************************************************************************)
(* Text helpers                                                            *)
(***************************************************************************)
RECURSIVE Concat(_)
Concat(ss) == IF ss = <<>> THEN <<>> ELSE Head(ss) \o Concat(Tail(ss))

\* str.contains(pat)
Contains(s, pat) ==
  \E i \in 1..(Len(s) - Len(pat) + 1) : SubSeq(s, i, i + Len(pat) - 1) = pat

\* str.starts_with(pat)
StartsWith(s, pat) == Len(s) >= Len(pat) /\ SubSeq(s, 1, Len(pat)) = pat

\* the lines of a text: the pieces between newline atoms (a last piece
\* without newline counts when it is not empty)
RECURSIVE LinesOf(_)
LinesOf(s) ==
  IF s = <<>> THEN <<>>
  ELSE IF \E i \in 1..Len(s) : s[i] = "\n"
       THEN LET i == CHOOSE k \in 1..Len(s) :
                       s[k] = "\n" /\ \A j \in 1..(k-1) : s[j] # "\n"
            IN <<SubSeq(s, 1, i-1)>> \o LinesOf(SubSeq(s, i+1, Len(s)))
       ELSE <<s>>

SeqToSet(s) == {s[i] : i \in 1..Len(s)}


(***************************************************************************)
(* Configuration (config.rs)                                               *)
(***************************************************************************)
Key1 == <<"k", "1">>
Key2 == <<"k", "2">>

TenguConfig(user, domain, cf_email, resend, notify, keys, release) ==
  [user |-> user, domain_platform |-> domain, domain_apps |-> "apps.example.com",
   cf_api_key |-> "cf-key", cf_email |-> cf_email, resend_api_key |-> resend,
   notify_email |-> notify, ssh_keys |-> keys, release |-> release]

\* TenguConfig::test_config and variations of it
test_config ==
  [TenguConfig("testuser", "test.example.com", "test@example.com", "re_test",
               "notify@example.com", <<Key1>>, "v0.1.0-test")
     EXCEPT !.cf_api_key = "test-api-key"]

Configs ==
  { test_config,
    [test_config EXCEPT !.ssh_keys = <<>>, !.release = ""],
    [test_config EXCEPT !.ssh_keys = <<Key1, Key2>>, !.user = "chi"] }

fail2ban_config(c) == <<"[sshd] enabled = true ... findtime = 600", "\n">>

tengu_config_toml_with_resend(c) ==
  <<"# Tengu PaaS Configuration", "\n", "domain = ", c.domain_apps, "\n",
    "api_key = ", c.cf_api_key, "\n", "email = ", c.cf_email, "\n",
    "resend = ", c.resend_api_key, "\n">>

tengu_config_toml(c) ==
  <<"# Tengu PaaS Configuration", "\n", "domain = ", c.domain_apps, "\n",
    "api_key = ", c.cf_api_key, "\n", "email = ", c.cf_email, "\n",
    "platform = ", c.domain_platform, "\n", "apps = ", c.domain_apps, "\n",
    "api = api.", c.domain_platform, "\n", "docs = docs.", c.domain_platform, "\n",
    "git = git.", c.domain_platform, "\n", "ssh = ssh.", c.domain_platform, "\n">>

caddyfile(c) ==
  <<"{ email ", c.cf_email, " }", "\n", "import sites/*.caddy", "\n",
    "api.", c.domain_platform, " { reverse_proxy localhost:8080 }", "\n",
    "docs.", c.domain_platform, " { reverse_proxy localhost:8080 }", "\n",
    "git.", c.domain_platform, " { reverse_proxy localhost:8080 }", "\n">>

(***************************************************************************)
(* Steps (steps/*.rs).  Every step is a record of the same shape; `kind`   *)
(* names the variant, the fields a variant does not have stay at their     *)
(* default.                                                                *)
(***************************************************************************)
StepBase ==
  [kind |-> "", description |-> <<>>, name |-> "", groups |-> <<>>,
   shell |-> "", sudo |-> None, ssh_keys |-> <<>>, repository |-> None,
   url_template |-> <<>>, custom_check |-> None, path |-> <<>>,
   content |-> <<>>, permissions |-> None, owner |-> None,
   enabled |-> FALSE, started |-> FALSE, rules |-> <<>>,
   default_incoming |-> "", default_outgoing |-> "",
   command |-> None, unless |-> None]

\* ---- steps/user.rs ----
EnsureUser_new(name) ==
  [StepBase EXCEPT !.kind = "EnsureUser", !.name = name, !.shell = "/bin/bash",
                   !.description = <<"Ensure user ", name, " exists">>]
with_groups(s, groups) == [s EXCEPT !.groups = groups]
with_sudo(s, sudo) == [s EXCEPT !.sudo = Some(sudo)]
with_ssh_keys(s, keys) == [s EXCEPT !.ssh_keys = keys]

SudoersPath(name) == <<"etc", "sudoers.d", name>>
SshDir(name) == <<"home", name, ".ssh">>
AuthorizedKeys(name) == <<"home", name, ".ssh", "authorized_keys">>

\* the key appended whatever the file holds
KeyLineAlways(key, name) == <<"echo_append", key, AuthorizedKeys(name)>>

\* the key line of to_bash: append the key unless a line of the file holds it
\* (the key's single quotes are escaped for the shell, which reads the key back)
KeyLine(key, name) ==
  <<"or", <<"grep_qF", key, AuthorizedKeys(name)>>,
          <<"echo_append", key, AuthorizedKeys(name)>>>>

EnsureUser_to_bash(s) ==
  << <<"or", <<"id", s.name>>, <<"useradd", s.shell, s.name>>>> >>
  \o (IF s.groups # <<>>
      THEN << <<"for", [i \in 1..Len(s.groups) |->
                 <<"or", <<"and", <<"getent_group", s.groups[i]>>,
                                  <<"usermod_aG", s.groups[i], s.name>>>>,
                         <<"true">>>>]>> >>
      ELSE <<>>)
  \o (IF s.sudo # None
      THEN << <<"and", <<"echo_to", <<s.name, " ", s.sudo[2]>>, SudoersPath(s.name)>>,
                       <<"chmod", "440", SudoersPath(s.name)>>>> >>
      ELSE <<>>)
  \o (IF s.ssh_keys # <<>>
      THEN << <<"and", <<"mkdir_p", SshDir(s.name)>>,
                       <<"chmod", "700", SshDir(s.name)>>>> >>
           \o [i \in 1..Len(s.ssh_keys) |-> KeyLine(s.ssh_keys[i], s.name)]
           \o << <<"and", <<"chmod", "600", AuthorizedKeys(s.name)>>,
                          <<"chown_R", s.name, SshDir(s.name)>>>> >>
      ELSE <<>>)

EnsureUser_check_command(s) == Some(<<"id", s.name>>)

\* ---- steps/package.rs ----
Repository_docker ==
  [key_url |-> "https://download.docker.com/linux/ubuntu/gpg",
   repo_line |-> "deb [arch=$(dpkg --print-architecture) signed-by=/usr/share/keyrings/docker-archive-keyring.gpg] https://download.docker.com/linux/ubuntu $(lsb_release -cs) stable",
   keyring_path |-> <<"usr", "share", "keyrings", "docker-archive-keyring.gpg">>]

Repository_postgresql ==
  [key_url |-> "https://www.postgresql.org/media/keys/ACCC4CF8.asc",
   repo_line |-> "deb [signed-by=/usr/share/keyrings/postgresql-archive-keyring.gpg] https://apt.postgresql.org/pub/repos/apt $(lsb_release -cs)-pgdg main",
   keyring_path |-> <<"usr", "share", "keyrings", "postgresql-archive-keyring.gpg">>]

InstallPackage_new(name) ==
  [StepBase EXCEPT !.kind = "InstallPackage", !.name = name,
                   !.description = <<"Install ", name>>]
with_repository(s, repo) == [s EXCEPT !.repository = Some(repo)]

SourcesList(name) == <<"etc", "apt", "sources.list.d", name \o ".list">>

InstallPackage_to_bash(s) ==
  (IF s.repository # None
   THEN LET repo == s.repository[2] IN
        << <<"if", <<"not", <<"test_f", repo.keyring_path>>>>,
                   <<"curl_gpg_dearmor", repo.key_url, repo.keyring_path>>>>,
           <<"if", <<"not", <<"grep_q_sources", repo.repo_line>>>>,
                   <<"seq", << <<"echo_to", <<repo.repo_line>>, SourcesList(s.name)>>,
                               <<"apt_update">> >> >> >> >>
   ELSE <<>>)
  \o << <<"or", <<"dpkg_s", s.name>>, <<"apt_install", s.name>>>> >>

InstallPackage_check_command(s) == Some(<<"dpkg_s", s.name>>)

InstallDebFromUrl_new(name, url_template) ==
  [StepBase EXCEPT !.kind = "InstallDebFromUrl", !.name = name,
                   !.url_template = url_template,
                   !.description = <<"Install ", name, " from URL">>]
with_check(s, check) == [s EXCEPT !.custom_check = Some(check)]

InstallDebFromUrl_ollama ==
  with_check(InstallDebFromUrl_new("ollama",
      <<"https://github.com/ollama/ollama/releases/latest/download/ollama-linux-{arch}.deb">>),
    <<"command_v", "ollama">>)

InstallDebFromUrl_tengu_caddy ==
  InstallDebFromUrl_new("tengu-caddy",
      <<"https://github.com/saiden-dev/tengu-caddy/releases/latest/download/tengu-caddy_{arch}.deb">>)

TmpDeb(name) == <<"tmp", name \o ".deb">>

\* one multi-line command: the lines run one after the other
InstallDebFromUrl_to_bash(s) ==
  << <<"lines", << <<"wget", s.url_template, TmpDeb(s.name)>>,
                   <<"or", <<"dpkg_i", TmpDeb(s.name), s.name>>, <<"apt_install_f", s.name>>>>,
                   <<"rm_f", TmpDeb(s.name)>> >> >> >>

InstallDebFromUrl_check_command(s) ==
  IF s.custom_check # None THEN s.custom_check ELSE Some(<<"dpkg_s", s.name>>)

\* ---- steps/directory.rs ----
EnsureDirectory_new(path) ==
  [StepBase EXCEPT !.kind = "EnsureDirectory", !.path = path,
                   !.description = <<"Ensure directory ", path>>]
with_permissions(s, perms) == [s EXCEPT !.permissions = Some(perms)]
with_owner(s, owner) == [s EXCEPT !.owner = Some(owner)]

EnsureDirectory_to_bash(s) ==
  << <<"mkdir_p", s.path>> >>
  \o (IF s.permissions # None THEN << <<"chmod", s.permissions[2], s.path>> >> ELSE <<>>)
  \o (IF s.owner # None THEN << <<"chown", s.owner[2], s.path>> >> ELSE <<>>)

EnsureDirectory_check_command(s) == Some(<<"test_d", s.path>>)

\* ---- steps/file.rs ----
WriteFile_new(path, content) ==
  [StepBase EXCEPT !.kind = "WriteFile", !.path = path, !.content = content,
                   !.description = <<"Write ", path>>]

\* SHA-256, hex-encoded: different texts have different digests
Sha256(bytes) == <<"sha256", bytes>>

content_hash(s) == Sha256(s.content)

heredoc_delimiter(s) ==
  IF Contains(s.content, <<"TENGU_EOF">>)
  THEN IF Contains(s.content, <<"__TENGU_FILE_END__">>)
       THEN "__FILE_CONTENT_END_MARKER__"
       ELSE "__TENGU_FILE_END__"
  ELSE "TENGU_EOF"

Dirname(path) == SubSeq(path, 1, Len(path) - 1)

WriteFile_to_bash(s) ==
  << <<"mkdir_p", Dirname(s.path)>>,
     <<"if", <<"not", <<"sha256_is", s.path, content_hash(s)>>>>,
             <<"cat_heredoc", s.path, heredoc_delimiter(s), s.content>>>> >>
  \o (IF s.permissions # None THEN << <<"chmod", s.permissions[2], s.path>> >> ELSE <<>>)
  \o (IF s.owner # None THEN << <<"chown", s.owner[2], s.path>> >> ELSE <<>>)

\* a guard that only asks for the file
WriteFile_check_exists(s) == Some(<<"test_f", s.path>>)

WriteFile_check_command(s) ==
  Some(<<"and", <<"test_f", s.path>>, <<"sha256_is", s.path, content_hash(s)>>>>)

\* ---- steps/service.rs ----
EnsureService_new(name) ==
  [StepBase EXCEPT !.kind = "EnsureService", !.name = name,
                   !.enabled = TRUE, !.started = TRUE,
                   !.description = <<"Ensure service ", name>>]
enabled(s, b) == [s EXCEPT !.enabled = b]
started(s, b) == [s EXCEPT !.started = b]

EnsureService_to_bash(s) ==
  (IF s.enabled
   THEN << <<"or", <<"systemctl", "is-enabled", s.name>>,
                   <<"systemctl", "enable", s.name>>>> >>
   ELSE <<>>)
  \o (IF s.started
      THEN << <<"or", <<"systemctl", "is-active", s.name>>,
                      <<"systemctl", "start", s.name>>>> >>
      ELSE <<>>)

EnsureService_check_command(s) ==
  IF s.started THEN Some(<<"systemctl", "is-active", s.name>>)
  ELSE IF s.enabled THEN Some(<<"systemctl", "is-enabled", s.name>>)
  ELSE None

\* ---- steps/firewall.rs ----
EnsureFirewall_new ==
  [StepBase EXCEPT !.kind = "EnsureFirewall", !.default_incoming = "deny",
                   !.default_outgoing = "allow",
                   !.description = <<"Configure firewall">>]
allow(s, port) == [s EXCEPT !.rules = Append(@, port)]

EnsureFirewall_to_bash(s) ==
  << <<"ufw_default", s.default_incoming, "incoming">>,
     <<"ufw_default", s.default_outgoing, "outgoing">> >>
  \o [i \in 1..Len(s.rules) |-> <<"ufw_allow", s.rules[i]>>]
  \o << <<"or", <<"ufw_status_active">>, <<"ufw_enable">>>> >>

EnsureFirewall_check_command(s) == Some(<<"ufw_status_active">>)

\* ---- steps/command.rs ----
RunCommand_new(description, command) ==
  [StepBase EXCEPT !.kind = "RunCommand", !.description = <<description>>,
                   !.command = command]
unless(s, check) == [s EXCEPT !.unless = Some(check)]

RunCommand_to_bash_and(s) ==
  IF s.unless # None
  THEN << <<"and", s.unless[2], s.command>> >>
  ELSE << s.command >>

RunCommand_to_bash(s) ==
  IF s.unless # None
  THEN << <<"or", s.unless[2], s.command>> >>
  ELSE << s.command >>

RunCommand_check_command(s) == s.unless

\* ---- the Step trait: dispatch on the variant (steps/mod.rs) ----
description(s) == s.description

to_bash(s) ==
  CASE s.kind = "EnsureUser" -> EnsureUser_to_bash(s)
    [] s.kind = "InstallPackage" -> InstallPackage_to_bash(s)
    [] s.kind = "InstallDebFromUrl" -> InstallDebFromUrl_to_bash(s)
    [] s.kind = "EnsureDirectory" -> EnsureDirectory_to_bash(s)
    [] s.kind = "WriteFile" -> WriteFile_to_bash(s)
    [] s.kind = "EnsureService" -> EnsureService_to_bash(s)
    [] s.kind = "EnsureFirewall" -> EnsureFirewall_to_bash(s)
    [] s.kind = "RunCommand" -> RunCommand_to_bash(s)

check_command(s) ==
  CASE s.kind = "EnsureUser" -> EnsureUser_check_command(s)
    [] s.kind = "InstallPackage" -> InstallPackage_check_command(s)
    [] s.kind = "InstallDebFromUrl" -> InstallDebFromUrl_check_command(s)
    [] s.kind = "EnsureDirectory" -> EnsureDirectory_check_command(s)
    [] s.kind = "WriteFile" -> WriteFile_check_command(s)
    [] s.kind = "EnsureService" -> EnsureService_check_command(s)
    [] s.kind = "EnsureFirewall" -> EnsureFirewall_check_command(s)
    [] s.kind = "RunCommand" -> RunCommand_check_command(s)

(***************************************************************************)
(* Manifest (manifest.rs)                                                  *)
(***************************************************************************)
Manifest_new(hostname) ==
  [hostname |-> hostname, fqdn |-> None, timezone |-> "UTC",
   locale |-> "en_US.UTF-8", steps |-> <<>>]
with_fqdn(m, fqdn) == [m EXCEPT !.fqdn = Some(fqdn)]
with_timezone(m, tz) == [m EXCEPT !.timezone = tz]
add_step(m, s) == [m EXCEPT !.steps = Append(@, s)]

base_packages ==
  <<"curl", "wget", "git", "jq", "htop", "vim", "fail2ban", "ufw",
    "ca-certificates", "gnupg", "lsb-release", "unzip">>

RootDir(path) == with_owner(with_permissions(EnsureDirectory_new(path), "0755"), "root:root")
RootFile(path, content, perms) ==
  with_owner(with_permissions(WriteFile_new(path, content), perms), "root:root")

tengu_deb_url(c) ==
  IF c.release = ""
  THEN <<"https://github.com/saiden-dev/tengu/releases/latest/download/tengu_{arch}.deb">>
  ELSE <<"https://github.com/saiden-dev/tengu/releases/download/", c.release, "/tengu_{arch}.deb">>

\* the steps of Manifest::tengu, phase by phase
TenguSteps(c) ==
  \* Phase 1: user setup
  << with_ssh_keys(with_sudo(with_groups(EnsureUser_new(c.user), <<"docker", "sudo">>),
                             "ALL=(ALL) NOPASSWD:ALL"), c.ssh_keys) >>
  \* Phase 2: base packages
  \o [i \in 1..Len(base_packages) |-> InstallPackage_new(base_packages[i])]
  \* Phase 3: Docker from the official repository
  \o << with_repository(InstallPackage_new("docker-ce"), Repository_docker),
        InstallPackage_new("docker-ce-cli"),
        InstallPackage_new("containerd.io"),
        InstallPackage_new("docker-compose-plugin"),
  \* Phase 4: PostgreSQL 16 with pgvector
        with_repository(InstallPackage_new("postgresql-16"), Repository_postgresql),
        InstallPackage_new("postgresql-16-pgvector"),
  \* Phase 5, 6: Ollama, tengu-caddy
        InstallDebFromUrl_ollama,
        InstallDebFromUrl_tengu_caddy,
  \* Phase 7: directories
        RootDir(<<"etc", "tengu">>),
        RootDir(<<"var", "lib", "tengu">>),
        RootDir(<<"var", "lib", "tengu", "apps">>),
        RootDir(<<"var", "lib", "tengu", "repos">>),
        RootDir(<<"var", "log", "tengu">>),
        RootDir(<<"etc", "caddy", "sites">>),
  \* Phase 8: configuration files
        RootFile(<<"etc", "tengu", "config.toml">>, tengu_config_toml(c), "0600"),
        RootFile(<<"etc", "caddy", "Caddyfile">>, caddyfile(c), "0644"),
        RootFile(<<"etc", "fail2ban", "jail.local">>, fail2ban_config(c), "0644"),
  \* Phase 9: firewall
        allow(allow(allow(EnsureFirewall_new, "22/tcp"), "80/tcp"), "443/tcp"),
  \* Phase 10: services
        EnsureService_new("docker"),
        EnsureService_new("postgresql"),
        EnsureService_new("fail2ban"),
        EnsureService_new("caddy"),
        unless(RunCommand_new("Enable ollama service",
                 <<"or", <<"systemctl", "enable", "ollama">>, <<"true">>>>),
               <<"systemctl", "is-enabled", "ollama">>),
        unless(RunCommand_new("Start ollama service",
                 <<"or", <<"systemctl", "start", "ollama">>, <<"true">>>>),
               <<"systemctl", "is-active", "ollama">>),
  \* Phase 11: the tengu package and its service
        InstallDebFromUrl_new("tengu", tengu_deb_url(c)),
        EnsureService_new("tengu"),
  \* Phase 12: database bootstrap
        unless(RunCommand_new("Create tengu PostgreSQL database",
                 <<"or", <<"psql_create_database", "tengu">>, <<"true">>>>),
               <<"psql_database_exists", "tengu">>),
        unless(RunCommand_new("Create tengu PostgreSQL user",
                 <<"or", <<"psql_create_user", "tengu">>, <<"true">>>>),
               <<"psql_role_exists", "tengu">>),
        RunCommand_new("Grant PostgreSQL privileges to tengu",
                 <<"psql_grant_all", "tengu", "tengu">>),
        unless(RunCommand_new("Enable pgvector extension",
                 <<"psql_create_extension_if_not_exists", "tengu", "vector">>),
               <<"psql_extension_exists", "tengu", "vector">>) >>

\* the manifest with the firewall step placed after the first service
tengu_firewall_late(c) ==
  LET steps == TenguSteps(c)
      at == CHOOSE i \in 1..Len(steps) : steps[i].kind = "EnsureFirewall"
  IN [with_timezone(with_fqdn(Manifest_new("tengu"), <<"api.", c.domain_platform>>), "UTC")
        EXCEPT !.steps = [i \in 1..Len(steps) |->
                            IF i = at THEN steps[at + 1]
                            ELSE IF i = at + 1 THEN steps[at] ELSE steps[i]]]

tengu(c) ==
  [with_timezone(with_fqdn(Manifest_new("tengu"), <<"api.", c.domain_platform>>), "UTC")
     EXCEPT !.steps = TenguSteps(c)]

(***************************************************************************)
(* The command line (crates/tengu-init/src/main.rs)                        *)
(***************************************************************************)
\* the required credentials, in the order they are validated
Credentials == <<"cloudflare.api_key", "cloudflare.email", "resend.api_key">>
CredentialSet == {Credentials[i] : i \in 1..3}

\* Option::or_else
or_else(a, b) == IF a # None THEN a ELSE b

\* a credential: command line, then environment, then configuration file
resolve(c, f) == or_else(or_else(c.args[f], c.env[f]), c.file[f])

\* the names of the credentials no source gives
missing(c) == SelectSeq(Credentials, LAMBDA f : resolve(c, f) = None)

\* std::process::exit(code) after the lines written to stderr
Exit(code, named) == [ended |-> TRUE, code |-> code, stderr |-> named]
Running == [ended |-> FALSE, code |-> 0, stderr |-> <<>>]

\* resolve_tengu_config: the process exits, or the configuration is built
resolve_tengu_config(c) ==
  IF missing(c) # <<>>
  THEN <<"exit", Exit(1, missing(c))>>
  ELSE <<"Ok", [user |-> c.user, domain_platform |-> "tengu.to",
                domain_apps |-> "tengu.host",
                cf_api_key |-> resolve(c, "cloudflare.api_key")[2],
                cf_email |-> resolve(c, "cloudflare.email")[2],
                resend_api_key |-> resolve(c, "resend.api_key")[2],
                notify_email |-> "admin@example.com", ssh_keys |-> <<>>,
                release |-> ""]>>

resolve_hetzner_config_unchecked(c) ==
  <<"Ok", [name |-> "tengu", server_type |-> "cax41"]>>

\* resolve_hetzner_config: the same validation; the server's parameters
resolve_hetzner_config(c) ==
  IF missing(c) # <<>>
  THEN <<"exit", Exit(1, missing(c))>>
  ELSE <<"Ok", [name |-> "tengu", server_type |-> "cax41"]>>

\* the sources a credential may come from
Sources(tag) == [CredentialSet -> {None, Some(tag)}]
Commands == {"hetzner", "baremetal", "show", "none"}
Invocations ==
  [command : Commands, show_config : BOOLEAN, script_only : BOOLEAN,
   dry_run : BOOLEAN, user : {"chi"},
   args : Sources("arg"), env : Sources("env"), file : Sources("file")]

\* no command line is being processed
MainIdle ==
  /\ cli = [command |-> "none", show_config |-> FALSE, script_only |-> FALSE,
            dry_run |-> FALSE, user |-> "chi",
            args |-> [f \in CredentialSet |-> None],
            env |-> [f \in CredentialSet |-> None],
            file |-> [f \in CredentialSet |-> None]]
  /\ net = <<>>
  /\ status = Running

MainInit ==
  /\ cli \in Invocations
  /\ cli.script_only => cli.command = "baremetal"
  /\ cli.dry_run => cli.command = "hetzner"
  /\ net = <<>> /\ status = Running
  /\ pc = "main" /\ config = test_config
  /\ assembled = None /\ self = None /\ script = None /\ total_steps = 0
  /\ attempts = 0 /\ sleeps = 0 /\ tries = 0 /\ phases = <<>>
  /\ received = <<>> /\ current_spinner = None /\ printed = <<>>
  /\ opened = 0 /\ closed = 0 /\ remote = None /\ result = None /\ warnings = <<>>
  /\ host = None /\ host0 = None /\ host1 = None /\ step = None /\ applied = 0
  /\ spc = <<"idle">> /\ out = <<>> /\ ran = <<{}, {}>> /\ run = 0 /\ cut = 0
  /\ exit_code = None

MainRest ==
  UNCHANGED <<self, script, total_steps, attempts, sleeps, tries, phases,
              received, current_spinner, printed, opened, closed, remote,
              result, warnings, scriptVars, stepVars, assembled, cli>>

\* main with --show-config: the path is printed, nothing else is done
ShowConfig ==
  /\ pc = "main" /\ cli.show_config
  /\ pc' = "exited" /\ status' = Exit(0, <<>>)
  /\ UNCHANGED <<config, net>> /\ MainRest

\* run_show: placeholders stand for the credentials, nothing is validated
run_show ==
  /\ pc = "main" /\ ~cli.show_config /\ cli.command = "show"
  /\ pc' = "exited" /\ status' = Exit(0, <<>>)
  /\ UNCHANGED <<config, net>> /\ MainRest

\* run_baremetal up to the return of resolve_tengu_config
BaremetalResolve ==
  /\ pc = "main" /\ ~cli.show_config /\ cli.command = "baremetal"
  /\ LET r == resolve_tengu_config(cli) IN
     IF r[1] = "exit"
     THEN pc' = "exited" /\ status' = r[2] /\ UNCHANGED config
     ELSE pc' = "resolved" /\ config' = r[2] /\ UNCHANGED status
  /\ UNCHANGED net /\ MainRest

\* run_baremetal with --script-only: the script is printed
BaremetalScriptOnly ==
  /\ pc = "resolved" /\ cli.command = "baremetal" /\ cli.script_only
  /\ pc' = "exited" /\ status' = Exit(0, <<>>)
  /\ UNCHANGED <<config, net>> /\ MainRest

\* run_baremetal: Baremetal::provision connects by ssh, then ends either way
BaremetalProvision ==
  /\ pc = "resolved" /\ cli.command = "baremetal" /\ ~cli.script_only
  /\ net' = Append(net, "ssh")
  /\ pc' = "exited" /\ \E code \in {0, 1} : status' = Exit(code, <<>>)
  /\ UNCHANGED config /\ MainRest

\* run_hetzner (also the default command) up to resolve_hetzner_config
HetznerResolve ==
  /\ pc = "main" /\ ~cli.show_config /\ cli.command \in {"hetzner", "none"}
  /\ LET r == resolve_hetzner_config(cli) IN
     IF r[1] = "exit"
     THEN pc' = "exited" /\ status' = r[2]
     ELSE pc' = "resolved" /\ UNCHANGED status
  /\ UNCHANGED <<config, net>> /\ MainRest

\* Hetzner::server_type_info: the first call of hcloud; it may fail
HetznerServerTypeInfo ==
  /\ pc = "resolved" /\ cli.command \in {"hetzner", "none"}
  /\ net' = Append(net, "hcloud server-type describe")
  /\ \/ pc' = "described" /\ UNCHANGED status
     \/ pc' = "exited" /\ status' = Exit(1, <<>>)
  /\ UNCHANGED config /\ MainRest

\* run_hetzner after the table: a dry run ends, else the server is looked up
HetznerCreate ==
  /\ pc = "described"
  /\ IF cli.dry_run
     THEN status' = Exit(0, <<>>) /\ UNCHANGED net
     ELSE /\ net' = Append(net, "hcloud server describe")
          /\ \E code \in {0, 1} : status' = Exit(code, <<>>)
  /\ pc' = "exited"
  /\ UNCHANGED config /\ MainRest

MainNext ==
  \/ ShowConfig \/ run_show
  \/ BaremetalResolve \/ BaremetalScriptOnly \/ BaremetalProvision
  \/ HetznerResolve \/ HetznerServerTypeInfo \/ HetznerCreate

SpecMain == MainInit /\ [][MainNext]_vars

\* the credentials that no source of the invocation gives
Absent ==
  {f \in CredentialSet :
     cli.args[f] = None /\ cli.env[f] = None /\ cli.file[f] = None}

\* C25: when a required credential is absent from command line, environment
\* and configuration file, a provisioning run (hetzner, baremetal, or the
\* default command) makes no network action: validation ends it with exit
\* status 1 and stderr names exactly the missing fields.
C25_MissingCredentialExitsFirst ==
  (Absent # {} /\ ~cli.show_config /\ cli.command # "show") =>
    /\ net = <<>>
    /\ pc \in {"main", "exited"}
    /\ pc = "exited" =>
         /\ status.ended /\ status.code = 1
         /\ SeqToSet(status.stderr) = Absent

\* a baremetal run without the Resend key (the two others given) has exited
C25_Witness ==
  /\ cli.command = "baremetal" /\ ~cli.show_config /\ pc = "exited"
  /\ status = Exit(1, <<"resend.api_key">>)
  /\ net = <<>>

\* ---- the manifest assembled for a configuration --------------------------
ManifestConfigs ==
  {TenguConfig(u, d, "test@example.com", r, "notify@example.com", k, rel) :
     u \in {"testuser", "chi"}, d \in {"test.example.com", "x.io"},
     r \in {"re_test", ""}, k \in {<<>>, <<Key1>>, <<Key1, Key2>>},
     rel \in {"v0.1.0-test", "v1", ""}}

ManifestInit ==
  /\ config \in ManifestConfigs
  /\ assembled = None /\ MainIdle
  /\ pc = "Idle" /\ self = None /\ script = None /\ total_steps = 0
  /\ attempts = 0 /\ sleeps = 0 /\ tries = 0 /\ phases = <<>>
  /\ received = <<>> /\ current_spinner = None /\ printed = <<>>
  /\ opened = 0 /\ closed = 0 /\ remote = None /\ result = None /\ warnings = <<>>
  /\ host = None /\ host0 = None /\ host1 = None /\ step = None /\ applied = 0
  /\ spc = <<"idle">> /\ out = <<>> /\ ran = <<{}, {}>> /\ run = 0 /\ cut = 0
  /\ exit_code = None

\* Manifest::tengu(&config)
Assemble ==
  /\ assembled = None
  /\ assembled' = Some(tengu(config))
  /\ UNCHANGED <<driverVars, scriptVars, stepVars, mainVars>>

SpecManifest == ManifestInit /\ [][Assemble]_vars

(***************************************************************************)
(* The boot-time document (steps/*.rs to_cloud_init, render/cloud_init.rs) *)
(***************************************************************************)
\* CloudInitFragment::default()
Fragment == [packages |-> <<>>, write_files |-> <<>>, runcmd |-> <<>>]

InstallPackage_to_cloud_init(s) ==
  [Fragment EXCEPT
     !.runcmd = IF s.repository # None
                THEN LET repo == s.repository[2] IN
                     << <<"curl_gpg_dearmor", repo.key_url, repo.keyring_path>>,
                        <<"echo_to", <<repo.repo_line>>, SourcesList(s.name)>>,
                        <<"apt_update">> >>
                ELSE <<>>,
     !.packages = <<s.name>>]

InstallDebFromUrl_to_cloud_init(s) ==
  LET check == IF s.custom_check # None THEN s.custom_check[2] ELSE <<"dpkg_s", s.name>> IN
  [Fragment EXCEPT
     !.runcmd = << <<"if", <<"not", check>>,
                     <<"lines", << <<"wget", s.url_template, TmpDeb(s.name)>>,
                                   <<"or", <<"dpkg_i", TmpDeb(s.name), s.name>>,
                                           <<"apt_install_f", s.name>>>>,
                                   <<"rm_f", TmpDeb(s.name)>> >> >> >> >>]

WriteFile_to_cloud_init(s) ==
  [Fragment EXCEPT
     !.write_files = << [path |-> s.path, content |-> s.content,
                         permissions |-> s.permissions, owner |-> s.owner] >>]

\* the other variants emit their shell commands
to_cloud_init(s) ==
  CASE s.kind = "InstallPackage" -> InstallPackage_to_cloud_init(s)
    [] s.kind = "InstallDebFromUrl" -> InstallDebFromUrl_to_cloud_init(s)
    [] s.kind = "WriteFile" -> WriteFile_to_cloud_init(s)
    [] OTHER -> [Fragment EXCEPT !.runcmd = to_bash(s)]

\* String's Ord on the package names: their order byte by byte
PackageOrder ==
  <<"ca-certificates", "containerd.io", "curl", "docker-ce", "docker-ce-cli",
    "docker-compose-plugin", "fail2ban", "git", "gnupg", "htop", "jq", "lsb-release",
    "postgresql-16", "postgresql-16-pgvector", "ufw", "unzip", "vim", "wget">>
str_lt(a, b) ==
  (CHOOSE i \in 1..Len(PackageOrder) : PackageOrder[i] = a)
    < (CHOOSE i \in 1..Len(PackageOrder) : PackageOrder[i] = b)

\* Vec::sort
RECURSIVE sort_insert(_, _)
sort_insert(v, x) ==
  IF v = <<>> THEN <<x>>
  ELSE IF str_lt(x, Head(v)) THEN <<x>> \o v
  ELSE <<Head(v)>> \o sort_insert(Tail(v), x)
RECURSIVE sort(_)
sort(v) == IF v = <<>> THEN <<>> ELSE sort_insert(sort(SubSeq(v, 1, Len(v) - 1)), v[Len(v)])

\* Vec::dedup: of consecutive equal elements the first stays
RECURSIVE dedup(_)
dedup(v) ==
  IF Len(v) <= 1 THEN v
  ELSE IF v[1] = v[2] THEN dedup(Tail(v))
  ELSE <<v[1]>> \o dedup(Tail(v))

\* the loop over the steps: each fragment is appended to what was collected
RECURSIVE merge_fragments(_, _)
merge_fragments(steps, acc) ==
  IF steps = <<>> THEN acc
  ELSE LET fragment == to_cloud_init(Head(steps)) IN
       merge_fragments(Tail(steps),
         [packages |-> acc.packages \o fragment.packages,
          write_files |-> acc.write_files \o fragment.write_files,
          runcmd |-> acc.runcmd \o fragment.runcmd])

CloudInitRenderer_new == [user_config |-> None]

CloudInitUserConfig(c) ==
  [name |-> c.user, groups |-> <<"sudo", "docker">>, shell |-> "/bin/bash",
   sudo |-> "ALL=(ALL) NOPASSWD:ALL", ssh_authorized_keys |-> c.ssh_keys]

\* a document whose package list keeps its duplicates
CloudInitRenderer_render_no_dedup(r, manifest) ==
  LET merged == merge_fragments(manifest.steps, Fragment) IN
  <<"#cloud-config", "\n",
    [hostname |-> manifest.hostname, fqdn |-> manifest.fqdn,
     timezone |-> manifest.timezone, locale |-> manifest.locale,
     ssh_pwauth |-> FALSE, disable_root |-> TRUE,
     users |-> IF r.user_config # None THEN <<r.user_config[2]>> ELSE <<>>,
     package_update |-> TRUE, package_upgrade |-> TRUE,
     packages |-> sort(merged.packages),
     write_files |-> merged.write_files,
     runcmd |-> merged.runcmd,
     final_message |-> "Tengu PaaS server ready!"]>>

\* a document whose command list drops a command equal to the one before it
CloudInitRenderer_render_dedup_all(r, manifest) ==
  LET merged == merge_fragments(manifest.steps, Fragment) IN
  <<"#cloud-config", "\n",
    [hostname |-> manifest.hostname, fqdn |-> manifest.fqdn,
     timezone |-> manifest.timezone, locale |-> manifest.locale,
     ssh_pwauth |-> FALSE, disable_root |-> TRUE,
     users |-> IF r.user_config # None THEN <<r.user_config[2]>> ELSE <<>>,
     package_update |-> TRUE, package_upgrade |-> TRUE,
     packages |-> dedup(sort(merged.packages)),
     write_files |-> merged.write_files,
     runcmd |-> dedup(merged.runcmd),
     final_message |-> "Tengu PaaS server ready!"]>>

\* the document: the line "#cloud-config", then the YAML of the settings
CloudInitRenderer_render(r, manifest) ==
  LET merged == merge_fragments(manifest.steps, Fragment) IN
  <<"#cloud-config", "\n",
    [hostname |-> manifest.hostname, fqdn |-> manifest.fqdn,
     timezone |-> manifest.timezone, locale |-> manifest.locale,
     ssh_pwauth |-> FALSE, disable_root |-> TRUE,
     users |-> IF r.user_config # None THEN <<r.user_config[2]>> ELSE <<>>,
     package_update |-> TRUE, package_upgrade |-> TRUE,
     packages |-> dedup(sort(merged.packages)),
     write_files |-> merged.write_files,
     runcmd |-> merged.runcmd,
     final_message |-> "Tengu PaaS server ready!"]>>

render_with_config(manifest, c) ==
  CloudInitRenderer_render([user_config |-> Some(CloudInitUserConfig(c))], manifest)

\* ---- a manifest rendered to its document ---------------------------------
MaxSteps == 3

DocSteps ==
  { InstallPackage_new("vim"),
    InstallPackage_new("curl"),
    with_repository(InstallPackage_new("docker-ce"), Repository_docker),
    InstallDebFromUrl_ollama,
    with_permissions(WriteFile_new(<<"etc", "test.conf">>, <<"hello">>), "0644"),
    EnsureService_new("docker"),
    unless(RunCommand_new("Create directory", <<"mkdir", <<"test">>>>),
           <<"test_d", <<"test">>>>) }

\* step lists of at most n steps
RECURSIVE StepLists(_)
StepLists(n) ==
  IF n = 0 THEN {<<>>}
  ELSE StepLists(n - 1)
       \cup {Append(l, x) : l \in {k \in StepLists(n - 1) : Len(k) = n - 1},
                             x \in DocSteps}

DocManifests ==
  {[Manifest_new("tengu") EXCEPT !.steps = l] : l \in StepLists(MaxSteps)}
    \cup {tengu(c) : c \in Configs}

DocInit ==
  /\ config = test_config
  /\ self \in {CloudInitRenderer_new, [user_config |-> Some(CloudInitUserConfig(config))]}
  /\ assembled \in {Some(m) : m \in DocManifests} /\ MainIdle
  /\ pc = "Idle" /\ script = None /\ total_steps = 0
  /\ attempts = 0 /\ sleeps = 0 /\ tries = 0 /\ phases = <<>>
  /\ received = <<>> /\ current_spinner = None /\ printed = <<>>
  /\ opened = 0 /\ closed = 0 /\ remote = None /\ result = None /\ warnings = <<>>
  /\ host = None /\ host0 = None /\ host1 = None /\ step = None /\ applied = 0
  /\ spc = <<"idle">> /\ out = <<>> /\ ran = <<{}, {}>> /\ run = 0 /\ cut = 0
  /\ exit_code = None

\* CloudInitRenderer::new().render(&manifest), or render_with_config
RenderDoc ==
  /\ out = <<>>
  /\ out' = IF self.user_config = None
            THEN CloudInitRenderer_render(self, assembled[2])
            ELSE render_with_config(assembled[2], config)
  /\ UNCHANGED <<driverVars, assembled, mainVars, stepVars, host, host0, spc, ran, run, cut, exit_code>>

SpecDoc == DocInit /\ [][RenderDoc]_vars

(***************************************************************************)
(* The host the commands run on, and what each command does to it.         *)
(*   users, groups, members   accounts, groups, <<user, group>> memberships *)
(*   fs                       path -> [kind, content, mode, owner]          *)
(*   pkgs                     installed packages                            *)
(*   enabled, active          systemd units enabled / running               *)
(*   ufw                      firewall: default policies, rules, active     *)
(*   pg                       databases, roles, grants, extensions          *)
(*   avail, urls, units       the surroundings, never changed by a command: *)
(*                            packages apt can install, URLs that can be    *)
(*                            fetched, units systemd knows                  *)
(***************************************************************************)
Put(fs, path, entry) ==
  [p \in (DOMAIN fs) \cup {path} |-> IF p = path THEN entry ELSE fs[p]]

Exists(h, path) == path \in DOMAIN h.fs
IsFile(h, path) == Exists(h, path) /\ h.fs[path].kind = "file"
IsDir(h, path) == Exists(h, path) /\ h.fs[path].kind = "dir"

NewFile(content) == [kind |-> "file", content |-> content, mode |-> "0644", owner |-> "root"]
NewDir == [kind |-> "dir", content |-> <<>>, mode |-> "0755", owner |-> "root"]

\* `> path`: the content is replaced, mode and owner of an existing file stay
WriteTo(h, path, content) ==
  [h EXCEPT !.fs = Put(@, path, IF IsFile(h, path)
                                THEN [h.fs[path] EXCEPT !.content = content]
                                ELSE NewFile(content))]

Prefixes(path) == {SubSeq(path, 1, n) : n \in 1..Len(path)}

Ok(h) == [h |-> h, ok |-> TRUE]
Fail(h) == [h |-> h, ok |-> FALSE]

\* both repository lines hold a bracket expression with a reversed range
\* ("r-a" in "docker-archive", "l-a" in "postgresql-archive"): as a grep
\* pattern they are invalid, grep ends with status 2 and matches nothing
InvalidPattern(pattern) ==
  pattern \in {Repository_docker.repo_line, Repository_postgresql.repo_line}

GrepSources(h, pattern) ==
  /\ ~InvalidPattern(pattern)
  /\ \E p \in DOMAIN h.fs :
       /\ Len(p) = 4 /\ SubSeq(p, 1, 3) = <<"etc", "apt", "sources.list.d">>
       /\ Contains(h.fs[p].content, <<pattern>>)

\* the here-document's body: the content and a newline, up to a line that is
\* the delimiter
HeredocClosedEarly(delim, content) ==
  \E i \in 1..Len(LinesOf(content)) : LinesOf(content)[i] = <<delim>>

HeredocBody(delim, content) ==
  IF HeredocClosedEarly(delim, content)
  THEN LET ls == LinesOf(content)
           k == CHOOSE i \in 1..Len(ls) :
                  ls[i] = <<delim>> /\ \A j \in 1..(i-1) : ls[j] # <<delim>>
       IN Concat([i \in 1..(k-1) |-> ls[i] \o <<"\n">>])
  ELSE content \o <<"\n">>

PsqlUp(h) == "postgresql" \in h.active

Systemctl(verb, unit, h) ==
  CASE verb = "is-enabled" -> IF unit \in h.enabled THEN Ok(h) ELSE Fail(h)
    [] verb = "is-active" -> IF unit \in h.active THEN Ok(h) ELSE Fail(h)
    [] verb = "enable" ->
         IF unit \in h.units THEN Ok([h EXCEPT !.enabled = @ \cup {unit}]) ELSE Fail(h)
    [] verb = "start" ->
         IF unit \in h.units THEN Ok([h EXCEPT !.active = @ \cup {unit}]) ELSE Fail(h)

\* a command without sub-commands
Prim(c, h) ==
  CASE c[1] = "true" -> Ok(h)
    [] c[1] = "id" -> IF c[2] \in h.users THEN Ok(h) ELSE Fail(h)
    [] c[1] = "useradd" ->
         IF c[3] \in h.users THEN Fail(h)
         ELSE Ok([h EXCEPT !.users = @ \cup {c[3]},
                           !.fs = IF <<"home", c[3]>> \in DOMAIN @ THEN @
                                  ELSE Put(@, <<"home", c[3]>>, [NewDir EXCEPT !.owner = c[3]])])
    [] c[1] = "getent_group" -> IF c[2] \in h.groups THEN Ok(h) ELSE Fail(h)
    [] c[1] = "usermod_aG" ->
         IF c[3] \in h.users /\ c[2] \in h.groups
         THEN Ok([h EXCEPT !.members = @ \cup {<<c[3], c[2]>>}])
         ELSE Fail(h)
    [] c[1] = "echo_to" -> Ok(WriteTo(h, c[3], c[2] \o <<"\n">>))
    [] c[1] = "echo_append" ->
         Ok(WriteTo(h, c[3], (IF IsFile(h, c[3]) THEN h.fs[c[3]].content ELSE <<>>)
                             \o c[2] \o <<"\n">>))
    [] c[1] = "grep_qF" ->
         IF IsFile(h, c[3]) /\ \E i \in 1..Len(LinesOf(h.fs[c[3]].content)) :
                                  Contains(LinesOf(h.fs[c[3]].content)[i], c[2])
         THEN Ok(h) ELSE Fail(h)
    [] c[1] = "grep_q_sources" -> IF GrepSources(h, c[2]) THEN Ok(h) ELSE Fail(h)
    [] c[1] = "chmod" ->
         IF Exists(h, c[3]) THEN Ok([h EXCEPT !.fs[c[3]].mode = c[2]]) ELSE Fail(h)
    [] c[1] = "chown" ->
         IF Exists(h, c[3]) THEN Ok([h EXCEPT !.fs[c[3]].owner = c[2]]) ELSE Fail(h)
    [] c[1] = "chown_R" ->
         IF Exists(h, c[3]) /\ c[2] \in h.users
         THEN Ok([h EXCEPT !.fs = [p \in DOMAIN @ |->
                     IF StartsWith(p, c[3]) THEN [@[p] EXCEPT !.owner = c[2]] ELSE @[p]]])
         ELSE Fail(h)
    [] c[1] = "mkdir_p" ->
         IF \E p \in Prefixes(c[2]) : IsFile(h, p) THEN Fail(h)
         ELSE Ok([h EXCEPT !.fs = [p \in (DOMAIN @) \cup Prefixes(c[2]) |->
                                     IF p \in DOMAIN @ THEN @[p] ELSE NewDir]])
    [] c[1] = "mkdir" ->
         IF Exists(h, c[2]) THEN Fail(h)
         ELSE Ok([h EXCEPT !.fs = Put(@, c[2], NewDir)])
    [] c[1] = "test_f" -> IF IsFile(h, c[2]) THEN Ok(h) ELSE Fail(h)
    [] c[1] = "test_d" -> IF IsDir(h, c[2]) THEN Ok(h) ELSE Fail(h)
    [] c[1] = "sha256_is" ->
         IF IsFile(h, c[2]) /\ Sha256(h.fs[c[2]].content) = c[3] THEN Ok(h) ELSE Fail(h)
    [] c[1] = "cat_heredoc" ->
         IF IsDir(h, c[2]) THEN Fail(h)
         ELSE [h |-> WriteTo(h, c[2], HeredocBody(c[3], c[4])),
               ok |-> ~HeredocClosedEarly(c[3], c[4])]
    [] c[1] = "rm_f" ->
         Ok([h EXCEPT !.fs = [p \in (DOMAIN @) \ {c[2]} |-> @[p]]])
    [] c[1] = "curl_gpg_dearmor" -> Ok(WriteTo(h, c[3], <<"keyring of ", c[2]>>))
    [] c[1] = "apt_update" -> Ok(h)
    [] c[1] = "dpkg_s" -> IF c[2] \in h.pkgs THEN Ok(h) ELSE Fail(h)
    [] c[1] = "command_v" -> IF c[2] \in h.pkgs THEN Ok(h) ELSE Fail(h)
    [] c[1] = "apt_install" ->
         IF c[2] \in h.avail THEN Ok([h EXCEPT !.pkgs = @ \cup {c[2]}]) ELSE Fail(h)
    [] c[1] = "wget" ->
         IF c[2] \in h.urls THEN Ok(WriteTo(h, c[3], <<"deb from ", c[2]>>))
         ELSE Fail(WriteTo(h, c[3], <<>>))
    [] c[1] = "dpkg_i" ->
         IF IsFile(h, c[2]) /\ h.fs[c[2]].content # <<>>
         THEN Ok([h EXCEPT !.pkgs = @ \cup {c[3]}]) ELSE Fail(h)
    [] c[1] = "apt_install_f" -> Ok(h)
    [] c[1] = "systemctl" ->
         Systemctl(c[2], c[3], h)
    [] c[1] = "ufw_default" ->
         Ok(IF c[3] = "incoming" THEN [h EXCEPT !.ufw.incoming = c[2]]
                                 ELSE [h EXCEPT !.ufw.outgoing = c[2]])
    [] c[1] = "ufw_allow" -> Ok([h EXCEPT !.ufw.allowed = @ \cup {c[2]}])
    [] c[1] = "ufw_status_active" -> IF h.ufw.active THEN Ok(h) ELSE Fail(h)
    [] c[1] = "ufw_enable" -> Ok([h EXCEPT !.ufw.active = TRUE])
    [] c[1] = "psql_database_exists" ->
         IF PsqlUp(h) /\ c[2] \in h.pg.dbs THEN Ok(h) ELSE Fail(h)
    [] c[1] = "psql_create_database" ->
         IF PsqlUp(h) /\ c[2] \notin h.pg.dbs
         THEN Ok([h EXCEPT !.pg.dbs = @ \cup {c[2]}]) ELSE Fail(h)
    [] c[1] = "psql_role_exists" ->
         IF PsqlUp(h) /\ c[2] \in h.pg.roles THEN Ok(h) ELSE Fail(h)
    [] c[1] = "psql_create_user" ->
         IF PsqlUp(h) /\ c[2] \notin h.pg.roles
         THEN Ok([h EXCEPT !.pg.roles = @ \cup {c[2]}]) ELSE Fail(h)
    [] c[1] = "psql_grant_all" ->
         IF PsqlUp(h) /\ c[2] \in h.pg.dbs /\ c[3] \in h.pg.roles
         THEN Ok([h EXCEPT !.pg.grants = @ \cup {<<c[2], c[3]>>}]) ELSE Fail(h)
    [] c[1] = "psql_extension_exists" ->
         IF PsqlUp(h) /\ <<c[2], c[3]>> \in h.pg.exts THEN Ok(h) ELSE Fail(h)
    [] c[1] = "psql_create_extension_if_not_exists" ->
         IF PsqlUp(h) /\ c[2] \in h.pg.dbs
         THEN Ok([h EXCEPT !.pg.exts = @ \cup {<<c[2], c[3]>>}]) ELSE Fail(h)

Compound == {"or", "and", "not", "if", "seq", "for", "lines"}

\* the shell's control structures: a || b, a && b, ! a, if a; then b; fi,
\* a list a; b; c (and the body of a for loop, once per word), whose status
\* is that of its last command, and a text of several lines
RECURSIVE Exec(_, _)
RECURSIVE ExecList(_, _, _)
\* abort = TRUE: stop at the first command that fails
ExecList(cs, h, abort) ==
  IF cs = <<>> THEN Ok(h)
  ELSE LET r == Exec(Head(cs), h) IN
       IF Len(cs) = 1 THEN r
       ELSE IF abort /\ ~r.ok THEN r
       ELSE ExecList(Tail(cs), r.h, abort)

Exec(c, h) ==
  CASE c[1] = "or" -> LET r == Exec(c[2], h) IN IF r.ok THEN r ELSE Exec(c[3], r.h)
    [] c[1] = "and" -> LET r == Exec(c[2], h) IN IF r.ok THEN Exec(c[3], r.h) ELSE r
    [] c[1] = "not" -> LET r == Exec(c[2], h) IN [h |-> r.h, ok |-> ~r.ok]
    [] c[1] = "if" -> LET r == Exec(c[2], h) IN IF r.ok THEN Exec(c[3], r.h) ELSE Ok(r.h)
    [] c[1] \in {"seq", "for"} -> ExecList(c[2], h, FALSE)
    [] c[1] = "lines" -> ExecList(c[2], h, TRUE)
    [] c[1] \notin Compound -> Prim(c, h)

\* a guard command run as a test
Test(guard, h) == Exec(guard, h).ok

\* the commands of a step, one after the other, up to the first that fails
Apply(s, h) == ExecList(to_bash(s), h, TRUE)

\* whether the step's guard succeeds (FALSE for a step without guard)
GuardHolds(s, h) == check_command(s) # None /\ Test(check_command(s)[2], h)

(***************************************************************************)
(* Host states the steps are tried on                                      *)
(***************************************************************************)
EmptyFs == [p \in {} |-> NewDir]

AllPackages ==
  SeqToSet(base_packages) \cup
  {"docker-ce", "docker-ce-cli", "containerd.io", "docker-compose-plugin",
   "postgresql-16", "postgresql-16-pgvector"}

AllUnits == {"docker", "postgresql", "fail2ban", "caddy", "ollama", "tengu"}

AllUrls ==
  {InstallDebFromUrl_ollama.url_template, InstallDebFromUrl_tengu_caddy.url_template}
  \cup {tengu_deb_url(c) : c \in Configs}

\* a freshly installed machine on which everything can be fetched
FreshHost ==
  [users |-> {}, groups |-> {"sudo"}, members |-> {}, fs |-> EmptyFs,
   pkgs |-> {}, enabled |-> {}, active |-> {},
   ufw |-> [incoming |-> "allow", outgoing |-> "allow", allowed |-> {}, active |-> FALSE],
   pg |-> [dbs |-> {}, roles |-> {}, grants |-> {}, exts |-> {}],
   avail |-> AllPackages, urls |-> AllUrls, units |-> AllUnits]

KeyTexts == {Key1, Key2, <<"k">>, <<"o">>}

\* authorized_keys files of at most MaxKeyLines lines
RECURSIVE KeyFiles(_)
KeyFiles(n) ==
  IF n = 0 THEN {<<>>}
  ELSE KeyFiles(n - 1) \cup
       {f \o k \o <<"\n">> : f \in KeyFiles(n - 1), k \in KeyTexts}

WithFile(h, path, content) == [h EXCEPT !.fs = Put(@, path, NewFile(content))]
WithDir(h, path, mode, owner) ==
  [h EXCEPT !.fs = Put(@, path, [NewDir EXCEPT !.mode = mode, !.owner = owner])]

UserHosts(s) ==
  LET withUser == {FreshHost} \cup
        {[FreshHost EXCEPT !.users = {s.name}, !.groups = g, !.members = m] :
           g \in {{"sudo"}, {"sudo", "docker"}},
           m \in {{}, {<<s.name, "sudo">>}}}
      withSudoers == withUser \cup
        {WithFile(h, SudoersPath(s.name), c) :
           h \in withUser,
           c \in {<<s.name, " ", "ALL=(ALL) NOPASSWD:ALL", "\n">>, <<"other", "\n">>}}
  IN withSudoers \cup
     {WithFile(h, AuthorizedKeys(s.name), f) :
        h \in withSudoers, f \in KeyFiles(MaxKeyLines)}

PackageHosts(s) ==
  LET plain == {[FreshHost EXCEPT !.pkgs = p, !.avail = a] :
                  p \in {{}, {s.name}}, a \in {{}, {s.name}}}
  IN plain \cup
     (IF s.repository = None THEN {}
      ELSE {WithFile(h, s.repository[2].keyring_path, <<"keyring">>) : h \in plain}
           \cup {WithFile(h, SourcesList(s.name), <<s.repository[2].repo_line, "\n">>) :
                   h \in plain})

DebHosts(s) ==
  LET plain == {[FreshHost EXCEPT !.pkgs = p, !.urls = u] :
                  p \in {{}, {s.name}}, u \in {{}, {s.url_template}}}
  IN plain \cup {WithFile(h, TmpDeb(s.name), <<"old">>) : h \in plain}

DirectoryHosts(s) ==
  {FreshHost, WithFile(FreshHost, s.path, <<"x">>)}
  \cup {WithDir(FreshHost, s.path, m, o) :
          m \in {"0755", "0700"}, o \in {"root", "root:root", "nobody"}}

FileHosts(s) ==
  LET contents == {s.content, s.content \o <<"\n">>, <<"other", "\n">>, <<>>}
      files == {FreshHost} \cup {WithFile(FreshHost, s.path, c) : c \in contents}
  IN files \cup {[h EXCEPT !.fs[s.path].mode = "0600", !.fs[s.path].owner = "nobody"] :
                   h \in files \ {FreshHost}}
           \cup {WithDir(FreshHost, s.path, "0755", "root")}

ServiceHosts(name) ==
  {[FreshHost EXCEPT !.enabled = e, !.active = a, !.units = u] :
     e \in {{}, {name}}, a \in {{}, {name}}, u \in {{}, {name}}}

FirewallHosts(s) ==
  {[FreshHost EXCEPT !.ufw = [incoming |-> i, outgoing |-> o, allowed |-> r, active |-> a]] :
     i \in {"allow", "deny"}, o \in {"allow", "deny"},
     r \in {{}, {"22/tcp"}, {"22/tcp", "80/tcp", "443/tcp"}, {"8080/tcp"}},
     a \in BOOLEAN}

DatabaseHosts ==
  {[FreshHost EXCEPT !.active = a, !.pg = [dbs |-> d, roles |-> r, grants |-> g, exts |-> e]] :
     a \in {{}, {"postgresql"}}, d \in {{}, {"tengu"}}, r \in {{}, {"tengu"}},
     g \in {{}, {<<"tengu", "tengu">>}}, e \in {{}, {<<"tengu", "vector">>}}}

CommandHosts(s) ==
  IF s.command[1] = "mkdir"
  THEN {FreshHost, WithDir(FreshHost, s.command[2], "0755", "root")}
  ELSE IF s.command[1] = "or" /\ s.command[2][1] = "systemctl"
  THEN ServiceHosts(s.command[2][3])
  ELSE DatabaseHosts

HostsFor(s) ==
  CASE s.kind = "EnsureUser" -> UserHosts(s)
    [] s.kind = "InstallPackage" -> PackageHosts(s)
    [] s.kind = "InstallDebFromUrl" -> DebHosts(s)
    [] s.kind = "EnsureDirectory" -> DirectoryHosts(s)
    [] s.kind = "WriteFile" -> FileHosts(s)
    [] s.kind = "EnsureService" -> ServiceHosts(s.name)
    [] s.kind = "EnsureFirewall" -> FirewallHosts(s)
    [] s.kind = "RunCommand" -> CommandHosts(s)

\* the steps of the manifests, and the steps the library's tests build
TestSteps ==
  { with_sudo(with_groups(EnsureUser_new("testuser"), <<"docker", "sudo">>),
              "ALL=(ALL) NOPASSWD:ALL"),
    InstallPackage_new("vim"),
    with_permissions(WriteFile_new(<<"etc", "test.conf">>, <<"test content">>), "0644"),
    WriteFile_new(<<"etc", "test.conf">>, <<"hello">>),
    WriteFile_new(<<"etc", "test.conf">>, <<"hello", "!">>),
    RootDir(<<"var", "lib", "tengu">>),
    EnsureDirectory_new(<<"srv">>),
    EnsureService_new("docker"),
    started(EnsureService_new("docker"), FALSE),
    enabled(EnsureService_new("docker"), FALSE),
    enabled(started(EnsureService_new("docker"), FALSE), FALSE),
    unless(RunCommand_new("Create directory", <<"mkdir", <<"test">>>>),
           <<"test_d", <<"test">>>>) }

SampleSteps ==
  TestSteps \cup UNION {SeqToSet(tengu(c).steps) : c \in Configs}

(***************************************************************************)
(* One step applied to a host, twice                                       *)
(***************************************************************************)
Idle == <<"idle">>

StepInit ==
  /\ step \in SampleSteps
  /\ host \in HostsFor(step)
  /\ host0 = host /\ host1 = host /\ applied = 0
  /\ pc = "Idle" /\ self = None /\ config = None /\ script = None /\ total_steps = 0
  /\ attempts = 0 /\ sleeps = 0 /\ tries = 0 /\ phases = <<>>
  /\ received = <<>> /\ current_spinner = None /\ printed = <<>>
  /\ opened = 0 /\ closed = 0 /\ assembled = None /\ MainIdle /\ remote = None /\ result = None /\ warnings = <<>>
  /\ spc = Idle /\ out = <<>> /\ ran = <<{}, {}>> /\ run = 0 /\ cut = 0
  /\ exit_code = None

\* the step's commands are run for the first time
ApplyOnce ==
  /\ applied = 0
  /\ host' = Apply(step, host).h
  /\ host1' = host'
  /\ applied' = 1
  /\ UNCHANGED <<driverVars, assembled, mainVars, host0, spc, out, ran, run, cut, exit_code, step>>

\* and once more, right after
ApplyAgain ==
  /\ applied = 1
  /\ host' = Apply(step, host).h
  /\ applied' = 2
  /\ UNCHANGED <<driverVars, assembled, mainVars, host0, spc, out, ran, run, cut, exit_code, step, host1>>

StepNext == ApplyOnce \/ ApplyAgain

SpecStep == StepInit /\ [][StepNext]_vars

(***************************************************************************)
(* A write-file step rendered to its commands (steps/file.rs)              *)
(***************************************************************************)
MaxContent == 3

ContentAtoms ==
  {"a", "\n", "TENGU_EOF", "__TENGU_FILE_END__", "__FILE_CONTENT_END_MARKER__"}

\* file contents of at most n atoms
RECURSIVE Contents(_)
Contents(n) ==
  IF n = 0 THEN {<<>>}
  ELSE Contents(n - 1)
       \cup {Append(c, a) : c \in {d \in Contents(n - 1) : Len(d) = n - 1},
                             a \in ContentAtoms}

FileInit ==
  /\ step \in {WriteFile_new(<<"etc", "test.conf">>, c) : c \in Contents(MaxContent)}
  /\ host = FreshHost /\ host0 = host /\ host1 = host /\ applied = 0
  /\ pc = "Idle" /\ self = None /\ config = None /\ script = None /\ total_steps = 0
  /\ attempts = 0 /\ sleeps = 0 /\ tries = 0 /\ phases = <<>>
  /\ received = <<>> /\ current_spinner = None /\ printed = <<>>
  /\ opened = 0 /\ closed = 0 /\ assembled = None /\ MainIdle /\ remote = None /\ result = None /\ warnings = <<>>
  /\ spc = Idle /\ out = <<>> /\ ran = <<{}, {}>> /\ run = 0 /\ cut = 0
  /\ exit_code = None

\* the step's commands are rendered
RenderFile ==
  /\ out = <<>>
  /\ out' = to_bash(step)
  /\ UNCHANGED <<driverVars, assembled, mainVars, stepVars, host, host0, spc, ran, run, cut, exit_code>>

SpecFile == FileInit /\ [][RenderFile]_vars

(***************************************************************************)
(* The idempotent script (render/bash.rs).                                 *)
(* A rendered script is its list of steps, each with its description, its  *)
(* guard and its commands, and the switches it was rendered with.          *)
(***************************************************************************)
BashRenderer_new == [verbose |-> FALSE, color |-> TRUE]
verbose(r, b) == [r EXCEPT !.verbose = b]
color(r, b) == [r EXCEPT !.color = b]

\* a script whose steps carry no guard
RenderUnguarded(r, manifest) ==
  [verbose |-> r.verbose,
   color_defs |-> r.color,
   steps |-> [i \in 1..Len(manifest.steps) |->
                [description |-> description(manifest.steps[i]),
                 guard |-> None,
                 commands |-> to_bash(manifest.steps[i])]],
   complete |-> IF r.verbose THEN Some(Len(manifest.steps)) ELSE None]

\* a script whose steps carry their guard only when it is verbose
RenderGuardedWhenVerbose(r, manifest) ==
  [verbose |-> r.verbose,
   color_defs |-> r.color,
   steps |-> [i \in 1..Len(manifest.steps) |->
                [description |-> description(manifest.steps[i]),
                 guard |-> IF r.verbose THEN check_command(manifest.steps[i]) ELSE None,
                 commands |-> to_bash(manifest.steps[i])]],
   complete |-> IF r.verbose THEN Some(Len(manifest.steps)) ELSE None]

\* a script that has its markers only when it has its colours
RenderMarkersWithColor(r, manifest) ==
  [verbose |-> r.verbose /\ r.color,
   color_defs |-> r.color,
   steps |-> [i \in 1..Len(manifest.steps) |->
                [description |-> description(manifest.steps[i]),
                 guard |-> check_command(manifest.steps[i]),
                 commands |-> to_bash(manifest.steps[i])]],
   complete |-> IF r.verbose /\ r.color THEN Some(Len(manifest.steps)) ELSE None]

\* the number the COMPLETE marker carries
CompleteTotal(manifest) == Len(manifest.steps)

BashRenderer_render(r, manifest) ==
  [verbose |-> r.verbose,
   color_defs |-> r.color,
   steps |-> [i \in 1..Len(manifest.steps) |->
                [description |-> description(manifest.steps[i]),
                 guard |-> check_command(manifest.steps[i]),
                 commands |-> to_bash(manifest.steps[i])]],
   complete |-> IF r.verbose THEN Some(CompleteTotal(manifest)) ELSE None]

\* a marker line TENGU_STEP:<ACTION>:<index>:<description>
Marker(action, index, desc) == [action |-> action, index |-> index, desc |-> desc]

\* what running the commands of step i of the script does to a host
RunCommands(sc, i, h) == ExecList(sc.steps[i].commands, h, TRUE)

\* whether step i of the script is skipped on host h
Skipped(sc, i, h) == sc.steps[i].guard # None /\ Test(sc.steps[i].guard[2], h)

\* the script run from step i to its end without interruption: the host it
\* leaves and its exit status
RECURSIVE RunFrom(_, _, _)
RunFrom(sc, i, h) ==
  IF i > Len(sc.steps) THEN [h |-> h, status |-> 0]
  ELSE IF Skipped(sc, i, h) THEN RunFrom(sc, i + 1, h)
  ELSE LET r == RunCommands(sc, i, h) IN
       IF r.ok THEN RunFrom(sc, i + 1, r.h) ELSE [h |-> r.h, status |-> 1]

\* hosts the whole script is run on: a fresh one, hosts on which one
\* package, one download or one service is missing, and one on which
\* tengu-caddy is installed and its download is not to be had
ScriptHosts ==
  { FreshHost,
    [FreshHost EXCEPT !.groups = {"sudo", "docker"}],
    [FreshHost EXCEPT !.avail = @ \ {"jq"}],
    [FreshHost EXCEPT !.urls = @ \ {InstallDebFromUrl_tengu_caddy.url_template}],
    [FreshHost EXCEPT !.units = @ \ {"caddy"}],
    [FreshHost EXCEPT !.pkgs = {"tengu-caddy"},
                      !.urls = @ \ {InstallDebFromUrl_tengu_caddy.url_template}] }

ScriptConfigs == {c \in Configs : c.user = "testuser"}

NSteps == Len(script.steps)

ScriptInit ==
  /\ config \in ScriptConfigs
  /\ host \in ScriptHosts
  /\ \/ self \in {color(verbose(BashRenderer_new, v), TRUE) : v \in BOOLEAN}
     \/ /\ self = color(verbose(BashRenderer_new, TRUE), FALSE)
        /\ config = test_config /\ host = FreshHost
  /\ script = BashRenderer_render(self, tengu(config))
  /\ host0 = host
  /\ spc = <<1, "start">> /\ out = <<>> /\ ran = <<{}, {}>> /\ run = 1 /\ cut = 0
  /\ exit_code = None
  /\ step = None /\ applied = 0 /\ host1 = None
  /\ pc = "Idle" /\ total_steps = 0
  /\ attempts = 0 /\ sleeps = 0 /\ tries = 0 /\ phases = <<>>
  /\ received = <<>> /\ current_spinner = None /\ printed = <<>>
  /\ opened = 0 /\ closed = 0 /\ assembled = None /\ MainIdle /\ remote = None /\ result = None /\ warnings = <<>>

Emit(action, index, desc) ==
  out' = IF script.verbose THEN Append(out, Marker(action, index, desc)) ELSE out

\* the START marker of the next step
StepStart ==
  /\ exit_code = None /\ spc[2] = "start" /\ spc[1] <= NSteps
  /\ Emit("START", spc[1], script.steps[spc[1]].description)
  /\ spc' = <<spc[1], "guard">>
  /\ UNCHANGED <<driverVars, assembled, mainVars, stepVars, host, host0, ran, run, cut, exit_code>>

\* the guard succeeds: SKIP, the commands are left out
StepSkip ==
  /\ exit_code = None /\ spc[2] = "guard"
  /\ Skipped(script, spc[1], host)
  /\ Emit("SKIP", spc[1], script.steps[spc[1]].description)
  /\ spc' = <<spc[1] + 1, "start">>
  /\ UNCHANGED <<driverVars, assembled, mainVars, stepVars, host, host0, ran, run, cut, exit_code>>

\* no guard, or the guard fails: the commands run and succeed: DONE
StepDone ==
  /\ exit_code = None /\ spc[2] = "guard"
  /\ ~Skipped(script, spc[1], host)
  /\ RunCommands(script, spc[1], host).ok
  /\ host' = RunCommands(script, spc[1], host).h
  /\ ran' = [ran EXCEPT ![run] = @ \cup {spc[1]}]
  /\ Emit("DONE", spc[1], script.steps[spc[1]].description)
  /\ spc' = <<spc[1] + 1, "start">>
  /\ UNCHANGED <<driverVars, assembled, mainVars, stepVars, host0, run, cut, exit_code>>

\* the commands run and fail: FAIL, and the script ends with status 1
StepFail ==
  /\ exit_code = None /\ spc[2] = "guard"
  /\ ~Skipped(script, spc[1], host)
  /\ ~RunCommands(script, spc[1], host).ok
  /\ host' = RunCommands(script, spc[1], host).h
  /\ ran' = [ran EXCEPT ![run] = @ \cup {spc[1]}]
  /\ Emit("FAIL", spc[1], script.steps[spc[1]].description)
  /\ spc' = <<spc[1], "failed">>
  /\ exit_code' = Some(1)
  /\ UNCHANGED <<driverVars, assembled, mainVars, stepVars, host0, run, cut>>

\* after the last step: the COMPLETE marker, status 0
ScriptComplete ==
  /\ exit_code = None /\ spc = <<NSteps + 1, "start">>
  /\ out' = IF script.complete # None
            THEN Append(out, Marker("COMPLETE", script.complete[2], <<>>))
            ELSE out
  /\ spc' = <<NSteps + 1, "end">>
  /\ exit_code' = Some(0)
  /\ UNCHANGED <<driverVars, assembled, mainVars, stepVars, host, host0, ran, run, cut>>

\* the first run is interrupted after a step; the script is uploaded again
\* and run from its first step on the host as it was left
InterruptAndRerun ==
  /\ run = 1 /\ exit_code = None /\ spc[2] = "start" /\ spc[1] > 1
  /\ cut' = spc[1] - 1
  /\ run' = 2
  /\ spc' = <<1, "start">>
  /\ out' = <<>>
  /\ UNCHANGED <<driverVars, assembled, mainVars, stepVars, host, host0, ran, exit_code>>

ScriptNext ==
  \/ StepStart \/ StepSkip \/ StepDone \/ StepFail \/ ScriptComplete
  \/ InterruptAndRerun

SpecScript == ScriptInit /\ [][ScriptNext]_vars

(***************************************************************************)
(* Progress markers (providers/baremetal.rs).  A line of remote output is  *)
(* a sequence of characters.                                               *)
(***************************************************************************)
ESC == "ESC"

Letters ==
  {"a", "b", "c", "d", "e", "f", "g", "h", "i", "j", "k", "l", "m", "n", "o", "p",
   "q", "r", "s", "t", "u", "v", "w", "x", "y", "z",
   "A", "B", "C", "D", "E", "F", "G", "H", "I", "J", "K", "L", "M", "N", "O", "P",
   "Q", "R", "S", "T", "U", "V", "W", "X", "Y", "Z"}
is_ascii_alphabetic(ch) == ch \in Letters

Digits == <<"0", "1", "2", "3", "4", "5", "6", "7", "8", "9">>
IsDigit(ch) == \E d \in 1..10 : Digits[d] = ch
DigitValue(ch) == (CHOOSE d \in 1..10 : Digits[d] = ch) - 1

Whitespace == {" ", "\t", "\r", "\n"}

\* str::trim
RECURSIVE TrimStart(_)
TrimStart(s) ==
  IF s # <<>> /\ Head(s) \in Whitespace THEN TrimStart(Tail(s)) ELSE s
RECURSIVE TrimEnd(_)
TrimEnd(s) ==
  IF s # <<>> /\ s[Len(s)] \in Whitespace THEN TrimEnd(SubSeq(s, 1, Len(s) - 1)) ELSE s
trim(s) == TrimEnd(TrimStart(s))

\* the inner loop of strip_ansi_codes: characters are dropped up to and
\* including the first letter
RECURSIVE SkipSequence(_)
SkipSequence(s) ==
  IF s = <<>> THEN <<>>
  ELSE IF is_ascii_alphabetic(Head(s)) THEN Tail(s)
  ELSE SkipSequence(Tail(s))

RECURSIVE strip_ansi_codes(_)
strip_ansi_codes(s) ==
  IF s = <<>> THEN <<>>
  ELSE IF Head(s) = ESC
       THEN IF Len(s) >= 2 /\ s[2] = "["
            THEN strip_ansi_codes(SkipSequence(SubSeq(s, 3, Len(s))))
            ELSE strip_ansi_codes(Tail(s))
       ELSE <<Head(s)>> \o strip_ansi_codes(Tail(s))

\* str::splitn(n, ':')
RECURSIVE splitn(_, _)
splitn(n, s) ==
  IF n = 1 \/ ~(\E i \in 1..Len(s) : s[i] = ":") THEN <<s>>
  ELSE LET i == CHOOSE k \in 1..Len(s) : s[k] = ":" /\ \A j \in 1..(k-1) : s[j] # ":"
       IN <<SubSeq(s, 1, i - 1)>> \o splitn(n - 1, SubSeq(s, i + 1, Len(s)))

\* str::parse::<usize>: an optional '+' and at least one digit
RECURSIVE DecimalValue(_)
DecimalValue(ds) ==
  IF ds = <<>> THEN 0
  ELSE 10 * DecimalValue(SubSeq(ds, 1, Len(ds) - 1)) + DigitValue(ds[Len(ds)])

parse_usize(s) ==
  LET ds == IF s # <<>> /\ Head(s) = "+" THEN Tail(s) ELSE s IN
  IF ds # <<>> /\ \A i \in 1..Len(ds) : IsDigit(ds[i])
  THEN Some(DecimalValue(ds)) ELSE None

TENGU_STEP == <<"T", "E", "N", "G", "U", "_", "S", "T", "E", "P">>
START == <<"S", "T", "A", "R", "T">>
DONE == <<"D", "O", "N", "E">>
SKIP == <<"S", "K", "I", "P">>
FAIL == <<"F", "A", "I", "L">>
COMPLETE == <<"C", "O", "M", "P", "L", "E", "T", "E">>

\* a parser that looks for the prefix anywhere in the line
parse_progress_marker_anywhere(line0) ==
  LET clean == strip_ansi_codes(trim(line0))
      parts == splitn(4, clean)
  IN IF ~Contains(clean, TENGU_STEP \o <<":">>) THEN None
     ELSE IF Len(parts) < 3 THEN None
     ELSE IF parse_usize(parts[3]) = None THEN None
     ELSE LET action == parts[2]
              n == parse_usize(parts[3])[2]
              desc == IF Len(parts) >= 4 THEN parts[4] ELSE <<>>
          IN CASE action = START -> Some([kind |-> "Start", step |-> n, desc |-> desc])
               [] action = DONE -> Some([kind |-> "Done", step |-> n, desc |-> desc])
               [] action = SKIP -> Some([kind |-> "Skip", step |-> n, desc |-> desc])
               [] action = FAIL -> Some([kind |-> "Fail", step |-> n, desc |-> desc])
               [] action = COMPLETE -> Some([kind |-> "Complete", step |-> n, desc |-> <<>>])
               [] OTHER -> None

parse_progress_marker(line0) ==
  LET clean == strip_ansi_codes(trim(line0))
      parts == splitn(4, clean)
  IN IF ~StartsWith(clean, TENGU_STEP \o <<":">>) THEN None
     ELSE IF Len(parts) < 3 THEN None
     ELSE IF parse_usize(parts[3]) = None THEN None
     ELSE LET action == parts[2]
              n == parse_usize(parts[3])[2]
              desc == IF Len(parts) >= 4 THEN parts[4] ELSE <<>>
          IN CASE action = START -> Some([kind |-> "Start", step |-> n, desc |-> desc])
               [] action = DONE -> Some([kind |-> "Done", step |-> n, desc |-> desc])
               [] action = SKIP -> Some([kind |-> "Skip", step |-> n, desc |-> desc])
               [] action = FAIL -> Some([kind |-> "Fail", step |-> n, desc |-> desc])
               [] action = COMPLETE -> Some([kind |-> "Complete", step |-> n, desc |-> <<>>])
               [] OTHER -> None

\* the text of a marker line as the script writes it
MarkerLine(action, n, desc) ==
  TENGU_STEP \o <<":">> \o action \o <<":">> \o n \o <<":">> \o desc

\* lines the remote side may send
SampleLines ==
  { MarkerLine(START, <<"3">>, <<"d">>),
    MarkerLine(DONE, <<"3">>, <<"d">>),
    MarkerLine(SKIP, <<"1">>, <<"u">>),
    MarkerLine(FAIL, <<"4">>, <<"j">>) \o <<"\r">>,
    <<ESC, "[", "3", "6", "m">> \o TENGU_STEP \o <<":">> \o COMPLETE \o <<":">>
      \o <<"4", "3">> \o <<ESC, "[", "0", "m">>,
    <<"G", "e", "t", ":", "1">> }

(***************************************************************************)
(* The driver: Baremetal::provision (providers/baremetal.rs)               *)
(***************************************************************************)
\* ---- what the surroundings may do --------------------------------------
IoErrors == {"os error 2", "os error 32"}
ExitStatuses == {0, 1, 255}
RemoteTexts == {<<>>, <<"Permission denied">>}

\* a command that could not be started, written to or waited for; text is
\* what ssh had written to its stderr by then (nothing when it never started)
Errored(where, e, text) ==
  [kind |-> "error", at |-> where, io |-> e, status |-> -1, stderr |-> text]
\* a command that has not been run
NotRun == [kind |-> "none", at |-> "", io |-> "", status |-> -1, stderr |-> <<>>]
\* a command that ran and exited
Exited(n, text) ==
  [kind |-> "exit", at |-> "", io |-> "", status |-> n, stderr |-> text]

Outcomes(places, texts) ==
  UNION {{Errored(a, e, t) : e \in IoErrors,
                             t \in IF a = "spawn" THEN {<<>>} ELSE texts} : a \in places}
    \cup {Exited(n, t) : n \in ExitStatuses, t \in texts}

Phases == {"Connecting", "Uploading", "Executing", "CleaningUp"}

\* ---- results ------------------------------------------------------------
OkResult == <<"Ok">>
Err(msg, detail) == <<"Err", [msg |-> msg, detail |-> detail]>>
IsErr(r) == r # None /\ r[1] = "Err"

\* ---- Baremetal -----------------------------------------------------------
\* str::split_once('@')
split_once_at(s) ==
  IF \E i \in 1..Len(s) : s[i] = "@"
  THEN LET i == CHOOSE k \in 1..Len(s) : s[k] = "@" /\ \A j \in 1..(k-1) : s[j] # "@"
       IN Some(<<SubSeq(s, 1, i - 1), SubSeq(s, i + 1, Len(s))>>)
  ELSE None

Baremetal_new(host_spec, port) ==
  LET sp == split_once_at(host_spec) IN
  IF sp # None
  THEN [host |-> sp[2][2], user |-> sp[2][1], port |-> port]
  ELSE [host |-> host_spec, user |-> <<"root">>, port |-> port]

ssh_destination(b) == b.user \o <<"@">> \o b.host

generate_script(c) ==
  BashRenderer_render(color(verbose(BashRenderer_new, TRUE), TRUE), tengu(c))

\* a count that leaves one step out
count_steps_short(c) == Len(tengu(c).steps) - 1

\* provision's total_steps: the manifest is assembled again and counted
count_steps(c) == Len(tengu(c).steps)

\* ---- wait_for_ssh --------------------------------------------------------
max_attempts == 30
pause_secs == 2

\* status.map(|s| s.success()).unwrap_or(false)
success(o) == o.kind = "exit" /\ o.status = 0

\* a test that lets one more attempt through
give_up_late(n) == n > max_attempts

\* the test made after a failed attempt has been counted
give_up(n) == n >= max_attempts

connection_timeout(b) ==
  Err("Could not connect to {host}:{port} via SSH", <<"addr", b.host, b.port>>)

\* ---- upload_script -------------------------------------------------------
\* an upload that takes any exit of the remote command for success
upload_script_any_exit(o) ==
  CASE o.kind = "error" /\ o.at = "spawn" ->
         Err("Failed to start SSH for upload", <<"io", o.io>>)
    [] o.kind = "error" /\ o.at = "write" ->
         Err("Failed to write script to SSH", <<"io", o.io>>)
    [] o.kind = "error" /\ o.at = "wait" ->
         Err("Failed to upload script", <<"io", o.io>>)
    [] OTHER -> OkResult

upload_script(o) ==
  CASE o.kind = "error" /\ o.at = "spawn" ->
         Err("Failed to start SSH for upload", <<"io", o.io>>)
    [] o.kind = "error" /\ o.at = "write" ->
         Err("Failed to write script to SSH", <<"io", o.io>>)
    [] o.kind = "error" /\ o.at = "wait" ->
         Err("Failed to upload script", <<"io", o.io>>)
    [] o.kind = "exit" /\ o.status # 0 ->
         Err("Failed to upload script: {stderr}", <<"stderr", o.stderr>>)
    [] OTHER -> OkResult

\* ---- execute_script ------------------------------------------------------
\* a START that leaves the spinner of the step before open
process_line_keep_open(line, total, st) ==
  LET parsed == parse_progress_marker(line)
      taken == [st EXCEPT !.current_spinner = None,
                          !.closed = IF st.current_spinner # None THEN @ + 1 ELSE @]
  IN
  IF parsed = None THEN st
  ELSE LET m == parsed[2]
           line_of(sign) == [step |-> m.step, total |-> total, sign |-> sign, desc |-> m.desc]
       IN
    CASE m.kind = "Start" ->
           [st EXCEPT !.current_spinner =
                        Some([step |-> m.step, total |-> total, msg |-> m.desc]),
                      !.opened = @ + 1]
      [] m.kind = "Done" -> [taken EXCEPT !.printed = Append(@, line_of("v"))]
      [] m.kind = "Skip" -> [taken EXCEPT !.printed = Append(@, line_of("o"))]
      [] m.kind = "Fail" -> [taken EXCEPT !.printed = Append(@, line_of("x"))]
      [] OTHER -> taken

\* a COMPLETE that prints a summary line of its own
process_line_print_complete(line, total, st) ==
  LET parsed == parse_progress_marker(line)
      taken == [st EXCEPT !.current_spinner = None,
                          !.closed = IF st.current_spinner # None THEN @ + 1 ELSE @]
  IN
  IF parsed = None THEN st
  ELSE LET m == parsed[2]
           line_of(sign) == [step |-> m.step, total |-> total, sign |-> sign, desc |-> m.desc]
       IN
    CASE m.kind = "Start" ->
           [taken EXCEPT !.current_spinner =
                           Some([step |-> m.step, total |-> total, msg |-> m.desc]),
                         !.opened = @ + 1]
      [] m.kind = "Done" -> [taken EXCEPT !.printed = Append(@, line_of("v"))]
      [] m.kind = "Skip" -> [taken EXCEPT !.printed = Append(@, line_of("o"))]
      [] m.kind = "Fail" -> [taken EXCEPT !.printed = Append(@, line_of("x"))]
      [] OTHER -> [taken EXCEPT !.printed = Append(@, line_of("v"))]

\* the spinner and the printed lines after one line of output was read
process_line(line, total, st) ==
  LET parsed == parse_progress_marker(line)
      \* if let Some(spinner) = current_spinner.take() { spinner.finish_and_clear() }
      taken == [st EXCEPT !.current_spinner = None,
                          !.closed = IF st.current_spinner # None THEN @ + 1 ELSE @]
  IN
  IF parsed = None THEN st
  ELSE LET m == parsed[2] IN
    CASE m.kind = "Start" ->
           [taken EXCEPT !.current_spinner =
                           Some([step |-> m.step, total |-> total, msg |-> m.desc]),
                         !.opened = @ + 1]
      [] m.kind = "Done" ->
           [taken EXCEPT !.printed = Append(@, [step |-> m.step, total |-> total,
                                                sign |-> "v", desc |-> m.desc])]
      [] m.kind = "Skip" ->
           [taken EXCEPT !.printed = Append(@, [step |-> m.step, total |-> total,
                                                sign |-> "o", desc |-> m.desc])]
      [] m.kind = "Fail" ->
           [taken EXCEPT !.printed = Append(@, [step |-> m.step, total |-> total,
                                                sign |-> "x", desc |-> m.desc])]
      [] OTHER -> taken

\* a result that takes only status 1 for a failure
script_result_always_ok(o) == OkResult

script_result_by_markers(o) ==
  CASE o.kind = "error" -> Err("Failed to wait for script", <<"io", o.io>>)
    [] o.kind = "exit" /\ (o.status # 0 \/ \E k \in 1..Len(printed) : printed[k].sign = "x") ->
         Err("Provisioning script failed with exit code: {status}", <<"status", o.status>>)
    [] OTHER -> OkResult

script_result_only_one(o) ==
  CASE o.kind = "error" -> Err("Failed to wait for script", <<"io", o.io>>)
    [] o.kind = "exit" /\ o.status = 1 ->
         Err("Provisioning script failed with exit code: {status}", <<"status", o.status>>)
    [] OTHER -> OkResult

\* what execute_script returns once the child has been waited for
script_result(o) ==
  CASE o.kind = "error" -> Err("Failed to wait for script", <<"io", o.io>>)
    [] o.kind = "exit" /\ o.status # 0 ->
         Err("Provisioning script failed with exit code: {status}", <<"status", o.status>>)
    [] OTHER -> OkResult

\* ---- cleanup_script ------------------------------------------------------
cleanup_script(o) ==
  CASE o.kind = "error" ->
         [result |-> Err("Failed to cleanup script", <<"io", o.io>>), warning |-> None]
    [] o.kind = "exit" /\ o.status # 0 ->
         [result |-> OkResult, warning |-> Some("Warning: Could not remove temp script")]
    [] OTHER -> [result |-> OkResult, warning |-> None]

\* ---- the run -------------------------------------------------------------
Targets == {<<<<"h">>, 22>>, <<<<"a", "@", "h">>, 2222>>}
DriverConfigs == {test_config, [test_config EXCEPT !.ssh_keys = <<>>, !.release = ""]}

Init ==
  /\ config \in DriverConfigs
  /\ \E t \in Targets : self = Baremetal_new(t[1], t[2])
  /\ pc = "Generating" /\ script = None /\ total_steps = 0
  /\ attempts = 0 /\ sleeps = 0 /\ tries = 0 /\ phases = <<>>
  /\ received = <<>> /\ current_spinner = None /\ printed = <<>>
  /\ opened = 0 /\ closed = 0 /\ assembled = None /\ MainIdle /\ remote = [p \in Phases |-> NotRun]
  /\ result = None /\ warnings = <<>>
  /\ host = None /\ host0 = None /\ spc = Idle /\ out = <<>> /\ ran = <<{}, {}>>
  /\ run = 0 /\ cut = 0 /\ exit_code = None
  /\ step = None /\ applied = 0 /\ host1 = None

Quiet == UNCHANGED <<self, config, scriptVars, stepVars, assembled, mainVars>>

\* the script is generated and the steps are counted; wait_for_ssh begins
Generate ==
  /\ pc = "Generating"
  /\ script' = generate_script(config)
  /\ total_steps' = count_steps(config)
  /\ pc' = "Connecting" /\ phases' = <<"Connecting">>
  /\ Quiet
  /\ UNCHANGED <<attempts, sleeps, tries, received, current_spinner, printed,
                 opened, closed, remote, result, warnings>>

\* one pass of wait_for_ssh's loop up to the pause; attempts, and the
\* counts of tries and pauses, are wait_for_ssh's own and end with it
Attempt ==
  /\ pc = "Connecting"
  /\ \E o \in Outcomes({"spawn"}, {<<>>}) :
       /\ remote' = [remote EXCEPT !.Connecting = o]
       /\ IF success(o)
          THEN /\ pc' = "Uploading" /\ phases' = Append(phases, "Uploading")
               /\ attempts' = 0 /\ tries' = 0 /\ sleeps' = 0
               /\ UNCHANGED result
          ELSE /\ attempts' = attempts + 1
               /\ tries' = tries + 1
               /\ IF give_up(attempts')
                  THEN pc' = "Failed" /\ result' = connection_timeout(self)
                  ELSE pc' = "Sleeping" /\ UNCHANGED result
               /\ UNCHANGED <<phases, sleeps>>
  /\ Quiet
  /\ UNCHANGED <<script, total_steps, received, current_spinner, printed,
                 opened, closed, warnings>>

\* the pause before the next attempt
Sleep ==
  /\ pc = "Sleeping"
  /\ sleeps' = sleeps + pause_secs
  /\ pc' = "Connecting"
  /\ Quiet
  /\ UNCHANGED <<script, total_steps, attempts, tries, phases, received,
                 current_spinner, printed, opened, closed, remote, result, warnings>>

\* upload_script, and the start of execute_script when it succeeded
Upload ==
  /\ pc = "Uploading"
  /\ \E o \in Outcomes({"spawn", "write", "wait"}, RemoteTexts) :
       /\ remote' = [remote EXCEPT !.Uploading = o]
       /\ IF upload_script(o) = OkResult
          THEN /\ pc' = "Executing" /\ phases' = Append(phases, "Executing")
               /\ UNCHANGED result
          ELSE /\ pc' = "Failed" /\ result' = upload_script(o)
               /\ UNCHANGED phases
  /\ Quiet
  /\ UNCHANGED <<script, total_steps, attempts, sleeps, tries, received,
                 current_spinner, printed, opened, closed, warnings>>

\* execute_script starts ssh
Spawn ==
  /\ pc = "Executing"
  /\ \/ /\ pc' = "Reading" /\ current_spinner' = None
        /\ UNCHANGED <<remote, result>>
     \/ \E e \in IoErrors :
          /\ remote' = [remote EXCEPT !.Executing = Errored("spawn", e, <<>>)]
          /\ pc' = "Failed" /\ result' = Err("Failed to execute script", <<"io", e>>)
          /\ UNCHANGED current_spinner
  /\ Quiet
  /\ UNCHANGED <<script, total_steps, attempts, sleeps, tries, phases, received,
                 printed, opened, closed, warnings>>

\* one line, drawn from lines, is read from the remote output and handled
ReadFrom(lines) ==
  /\ pc = "Reading"
  /\ \E line \in lines :
       LET st == process_line(line, total_steps,
                   [current_spinner |-> current_spinner, printed |-> printed,
                    opened |-> opened, closed |-> closed])
       IN /\ received' = Append(received, line)
          /\ current_spinner' = st.current_spinner
          /\ printed' = st.printed
          /\ opened' = st.opened
          /\ closed' = st.closed
  /\ Quiet
  /\ UNCHANGED <<pc, script, total_steps, attempts, sleeps, tries, phases,
                 remote, result, warnings>>

ReadLine == Len(received) < MaxLines /\ ReadFrom(SampleLines)

\* a line that cannot be decoded is passed over
ReadUndecodable ==
  /\ pc = "Reading" /\ Len(received) < MaxLines
  /\ received' = Append(received, <<"?">>)
  /\ Quiet
  /\ UNCHANGED <<pc, script, total_steps, attempts, sleeps, tries, phases,
                 current_spinner, printed, opened, closed, remote, result, warnings>>

\* the stream ends: a spinner still open is closed
EndOfStream ==
  /\ pc = "Reading"
  /\ current_spinner' = None
  /\ closed' = IF current_spinner # None THEN closed + 1 ELSE closed
  /\ pc' = "Waiting"
  /\ Quiet
  /\ UNCHANGED <<script, total_steps, attempts, sleeps, tries, phases, received,
                 printed, opened, remote, result, warnings>>

\* the child is waited for; cleanup begins when the script succeeded
Wait ==
  /\ pc = "Waiting"
  /\ \E o \in Outcomes({"wait"}, {<<>>}) :
       /\ remote' = [remote EXCEPT !.Executing = o]
       /\ IF script_result(o) = OkResult
          THEN /\ pc' = "CleaningUp" /\ phases' = Append(phases, "CleaningUp")
               /\ UNCHANGED result
          ELSE /\ pc' = "Failed" /\ result' = script_result(o)
               /\ UNCHANGED phases
  /\ Quiet
  /\ UNCHANGED <<script, total_steps, attempts, sleeps, tries, received,
                 current_spinner, printed, opened, closed, warnings>>

\* cleanup_script, and provision's return
Cleanup ==
  /\ pc = "CleaningUp"
  /\ \E o \in Outcomes({"spawn"}, {<<>>}) :
       LET c == cleanup_script(o) IN
       /\ remote' = [remote EXCEPT !.CleaningUp = o]
       /\ warnings' = IF c.warning = None THEN warnings
                      ELSE Append(warnings, c.warning[2])
       /\ result' = c.result
       /\ pc' = IF c.result = OkResult THEN "Done" ELSE "Failed"
  /\ Quiet
  /\ UNCHANGED <<script, total_steps, attempts, sleeps, tries, phases, received,
                 current_spinner, printed, opened, closed>>

Next ==
  \/ Generate \/ Attempt \/ Sleep \/ Upload \/ Spawn \/ ReadLine
  \/ ReadUndecodable \/ EndOfStream \/ Wait \/ Cleanup

Spec == Init /\ [][Next]_vars

\* every step of the driver is eventually taken: the process runs, a
\* started ssh returns, a pause ends
LiveSpec == Spec /\ WF_vars(Next)

(***************************************************************************)
(* execute_script reading lines of any shape                               *)
(***************************************************************************)
\* the parts lines are put together from
LineLeads ==
  {<<>>, <<" ">>, <<"x">>, <<ESC>>, <<ESC, "[", "3", "2", "m">>,
   <<ESC, "[", "3", "2", "m", " ">>}
LineHeads ==
  {TENGU_STEP, <<"T", "E", "N", "G", "U">>,
   <<"T", "E", "N", "G", "U", ESC, "[", "1", "m", "_", "S", "T", "E", "P">>}
LineActions ==
  {START, DONE, SKIP, FAIL, COMPLETE, <<"S", "T", "O", "P">>, <<"d", "o", "n", "e">>}
LineIndexes ==
  {<<":", "3">>, <<":", "1", "2">>, <<":", "+", "3">>, <<":", "-", "1">>,
   <<":", "x">>, <<":", "3", "a">>, <<":">>, <<>>}
LineDescs ==
  {<<>>, <<":">>, <<":", "d">>, <<":", "a", ":", "b">>,
   <<":", "d", ESC, "[", "0", "m">>, <<":", "d", ESC, "[", "3">>}
LineTails == {<<>>, <<"\r">>, <<" ", ESC, "[", "0", "m">>}

LineInputs ==
  {l \o h \o <<":">> \o a \o n \o d \o t :
     l \in LineLeads, h \in LineHeads, a \in LineActions, n \in LineIndexes,
     d \in LineDescs, t \in LineTails}

\* the lines before the last one
FirstLines == {MarkerLine(START, <<"3">>, <<"d">>), <<"G", "e", "t", ":", "1">>}

\* execute_script has started ssh and begins to read
LineInit ==
  /\ config = test_config
  /\ self = Baremetal_new(<<"h">>, 22)
  /\ script = generate_script(config) /\ total_steps = count_steps(config)
  /\ pc = "Reading" /\ phases = <<"Connecting", "Uploading", "Executing">>
  /\ attempts = 0 /\ sleeps = 0 /\ tries = 0
  /\ received = <<>> /\ current_spinner = None /\ printed = <<>>
  /\ opened = 0 /\ closed = 0 /\ assembled = None /\ MainIdle
  /\ remote = [p \in Phases |-> IF p \in {"Connecting", "Uploading"}
                                 THEN Exited(0, <<>>) ELSE NotRun]
  /\ result = None /\ warnings = <<>>
  /\ host = None /\ host0 = None /\ spc = Idle /\ out = <<>> /\ ran = <<{}, {}>>
  /\ run = 0 /\ cut = 0 /\ exit_code = None
  /\ step = None /\ applied = 0 /\ host1 = None

\* a stream of MaxLines lines, the last of them of any shape
ReadAnyLine ==
  /\ Len(received) < MaxLines
  /\ ReadFrom(IF Len(received) + 1 < MaxLines THEN FirstLines ELSE LineInputs)

SpecLine == LineInit /\ [][ReadAnyLine]_vars


(***************************************************************************)
(* Properties of the running script                                        *)
(***************************************************************************)
\* the manifest the script was rendered from
TheManifest == tengu(config)

\* markers come in pairs: START i at place 2i-1, then SKIP, DONE or FAIL i at
\* place 2i; FAIL is the last marker and the script has ended with a status
\* other than 0; COMPLETE comes after the pair of the last step
MarkerOrder ==
  \A k \in 1..Len(out) :
    LET m == out[k] IN
    /\ m.action \in {"START", "SKIP", "DONE", "FAIL", "COMPLETE"}
    /\ m.action # "COMPLETE" =>
         /\ m.index = (k + 1) \div 2
         /\ m.index \in 1..Len(TheManifest.steps)
         /\ m.desc = description(TheManifest.steps[m.index])
         /\ (m.action = "START") <=> (k % 2 = 1)
    /\ m.action = "COMPLETE" => k = 2 * Len(TheManifest.steps) + 1
    /\ m.action = "FAIL" =>
         /\ k = Len(out) /\ exit_code # None /\ exit_code # Some(0)
         /\ m.index \in ran[run]
    /\ m.action = "DONE" => m.index \in ran[run]
    /\ m.action = "SKIP" =>
         /\ m.index \notin ran[run]
         /\ check_command(TheManifest.steps[m.index]) # None

\* the marker written after START i says what happened: SKIP exactly when the
\* step has a guard and the guard succeeded, and then the host is untouched;
\* otherwise the commands ran, DONE when they succeeded and FAIL when not
MarkerMeaning ==
  (Len(out') = Len(out) + 1 /\ out'[Len(out')].action \in {"SKIP", "DONE", "FAIL"}) =>
    LET m == out'[Len(out')]
        s == TheManifest.steps[m.index]
    IN /\ (m.action = "SKIP") <=> GuardHolds(s, host)
       /\ m.action = "SKIP" => host' = host
       /\ m.action = "DONE" => Apply(s, host).ok /\ host' = Apply(s, host).h
       /\ m.action = "FAIL" => ~Apply(s, host).ok /\ host' = Apply(s, host).h

\* C1: a verbose script writes its markers in manifest order: START i, then
\* exactly one of SKIP i (the step has a guard, the guard succeeded, the
\* commands are not run), DONE i (commands ran and succeeded) or FAIL i
\* (commands ran and failed); FAIL is the last marker and the exit status is
\* not zero.
C1_MarkerProtocol == [](script.verbose => MarkerOrder) /\ [][script.verbose => MarkerMeaning]_vars

\* a second run that skipped three steps, ran one and failed at the fifth
C1_Witness ==
  /\ script.verbose /\ exit_code = Some(1) /\ Len(out) = 10
  /\ out[10].action = "FAIL" /\ out[8].action = "DONE" /\ out[6].action = "SKIP"

\* C10: after an interrupt, a second run from step 1 ends in the host state
\* of one uninterrupted run, and no step whose commands ran in the first run
\* has them run again.
C10_ResumeSkipsApplied ==
  /\ run = 2 => ran[1] \cap ran[2] = {}
  /\ (run = 2 /\ exit_code # None) => host = RunFrom(script, 1, host0).h

\* the script of the same manifest rendered with the other setting of verbose
OtherVerbosity ==
  BashRenderer_render(verbose(self, ~self.verbose), TheManifest)

\* C23: a script rendered without verbose writes no marker, and its run
\* leaves the host, and ends with the status, that the run of the verbose
\* script of the same manifest on the same host leaves, also where a step's
\* commands (a package installed from a URL) rely on the guard.
C23_QuietSameWork ==
  /\ ~self.verbose => (~script.verbose /\ script.complete = None /\ out = <<>>)
  /\ (run = 1 /\ exit_code # None) =>
       LET r == RunFrom(OtherVerbosity, 1, host0) IN
       /\ host = r.h
       /\ exit_code = Some(r.status)

\* a quiet script has ended on a host on which tengu-caddy was installed
\* and its download is not to be had
C23_Witness ==
  /\ ~self.verbose /\ run = 1 /\ exit_code = Some(0) /\ out = <<>>
  /\ "tengu-caddy" \in host0.pkgs
  /\ InstallDebFromUrl_tengu_caddy.url_template \notin host0.urls
  /\ host # host0

\* C24: a script rendered without colour has no colour definitions; when
\* verbose is on it has the steps, guards and COMPLETE total of the script
\* rendered with colour, and its run writes the markers.
C24_ColorIndependent ==
  /\ script.color_defs = self.color
  /\ script.verbose = self.verbose
  /\ (self.verbose /\ ~self.color) =>
       LET colored == BashRenderer_render(color(self, TRUE), TheManifest) IN
       /\ ~script.color_defs /\ colored.color_defs
       /\ script.steps = colored.steps /\ script.complete = colored.complete
       /\ (spc # <<1, "start">>) => (out # <<>> /\ out[1].action = "START")
       /\ (run = 1 /\ exit_code = Some(0)) => Len(out) = 2 * NSteps + 1

\* a verbose script without colour has run to its COMPLETE marker
C24_Witness ==
  /\ self.verbose /\ ~self.color /\ ~script.color_defs
  /\ run = 1 /\ exit_code = Some(0)
  /\ Len(out) = 2 * NSteps + 1 /\ out[Len(out)].action = "COMPLETE"

(***************************************************************************)
(* Properties of a step applied twice                                      *)
(***************************************************************************)
\* C8: the commands of a step applied twice in a row leave the host state,
\* and with it the guard's result, that one application leaves.
C8_Idempotent ==
  applied = 2 => /\ host = host1
                 /\ GuardHolds(step, host) = GuardHolds(step, host1)

\* a user step that changed the host and added a key to a file that had one
C8_Witness ==
  /\ applied = 2 /\ step.kind = "EnsureUser" /\ host1 # host0
  /\ step.ssh_keys # <<>>
  /\ Exists(host0, AuthorizedKeys(step.name))
  /\ host1.fs[AuthorizedKeys(step.name)].content # host0.fs[AuthorizedKeys(step.name)].content

\* C9: when the guard of a step succeeds, running the step's commands
\* changes nothing.
C9_GuardSound == (applied >= 1 /\ GuardHolds(step, host0)) => host1 = host0

\* C11: the guard of a write-file step succeeds exactly when a file is at
\* the path whose SHA-256 digest is the digest of the step's content; two
\* write-file steps for one path with different contents ("hello" and
\* "hello!") expect different digests, and no file satisfies both guards.
C11_GuardIffDigest ==
  step.kind = "WriteFile" =>
    /\ GuardHolds(step, host) <=>
         (IsFile(host, step.path)
          /\ Sha256(host.fs[step.path].content) = Sha256(step.content))
    /\ \A t \in SampleSteps :
         (t.kind = "WriteFile" /\ t.path = step.path /\ t.content # step.content)
           => /\ content_hash(t) # content_hash(step)
              /\ ~(GuardHolds(step, host) /\ GuardHolds(t, host))

\* a file holding "hello" passes the guard for "hello", not that for "hello!"
C11_Witness ==
  /\ step = WriteFile_new(<<"etc", "test.conf">>, <<"hello">>)
  /\ IsFile(host, step.path) /\ host.fs[step.path].content = <<"hello">>
  /\ GuardHolds(step, host)
  /\ ~GuardHolds(WriteFile_new(<<"etc", "test.conf">>, <<"hello", "!">>), host)

\* C12: after the commands of a write-file step have run once, the digest
\* of the file equals the digest the step expects: the guard succeeds, and
\* the condition under which the commands rewrite the file is false.
C12_DigestMatchesAfterWrite ==
  (applied >= 1 /\ step.kind = "WriteFile" /\ ~IsDir(host0, step.path)) =>
    /\ IsFile(host1, step.path)
    /\ Sha256(host1.fs[step.path].content) = content_hash(step)
    /\ GuardHolds(step, host1)
    /\ ~Exec(to_bash(step)[2][2], host1).ok

\* C13: the here-document delimiter of a write-file step does not occur in
\* the content, and is the first of TENGU_EOF, __TENGU_FILE_END__,
\* __FILE_CONTENT_END_MARKER__ that the content does not contain.
C13_DelimiterNotInContent ==
  out # <<>> =>
    LET cands == <<"TENGU_EOF", "__TENGU_FILE_END__", "__FILE_CONTENT_END_MARKER__">>
        d == out[2][3][3]
    IN /\ d = heredoc_delimiter(step)
       /\ ~Contains(step.content, <<d>>)
       /\ \E i \in 1..3 : /\ d = cands[i]
                           /\ \A j \in 1..(i - 1) : Contains(step.content, <<cands[j]>>)

(***************************************************************************)
(* Properties of the driver                                                *)
(***************************************************************************)
PhaseOrder == <<"Connecting", "Uploading", "Executing", "CleaningUp">>

\* the command of phase p ran and exited with status 0
Succeeded(p) == remote[p].kind = "exit" /\ remote[p].status = 0

LastPhase == phases[Len(phases)]

\* C2: the phases start in the order Connecting, Uploading, Executing,
\* CleaningUp, each only after the one before it succeeded; provision
\* returns success only after the script exited with status 0; after a
\* fatal failure the failed phase is the last one started.
C2_PhaseOrder ==
  /\ Len(phases) <= Len(PhaseOrder)
  /\ phases = SubSeq(PhaseOrder, 1, Len(phases))
  /\ \A k \in 2..Len(phases) : Succeeded(phases[k - 1])
  /\ pc = "Done" <=> result = OkResult
  /\ pc = "Done" => Len(phases) = Len(PhaseOrder) /\ Succeeded("Executing")
  /\ pc = "Failed" <=> IsErr(result)
  /\ pc = "Failed" => ~Succeeded(LastPhase)

\* the script exited with status 1: provision failed without cleaning up
C2_Witness ==
  /\ pc = "Failed" /\ phases = <<"Connecting", "Uploading", "Executing">>
  /\ remote["Executing"].kind = "exit" /\ remote["Executing"].status = 1

\* wait_for_ssh is running
Waiting == pc \in {"Connecting", "Sleeping"}

\* wait_for_ssh gave up
TimedOut == pc = "Failed" /\ phases = <<"Connecting">>

\* C3: wait_for_ssh ends.  It returns success at the attempt that succeeds;
\* after max_attempts (30) failed attempts it makes no further attempt and
\* returns the error that names the host and the port; before each attempt
\* but the first it has paused pause_secs (2) seconds.
C3_WaitForSshTerminates ==
  /\ [](Waiting => /\ tries < max_attempts /\ attempts = tries
                   /\ sleeps = pause_secs * (IF pc = "Sleeping" THEN tries - 1 ELSE tries))
  /\ [](TimedOut => /\ tries = max_attempts
                    /\ sleeps = pause_secs * (max_attempts - 1)
                    /\ result[2].detail = <<"addr", self.host, self.port>>)
  /\ [][pc = "Connecting" =>
          /\ (pc' = "Uploading") <=>
               (remote'["Connecting"].kind = "exit" /\ remote'["Connecting"].status = 0)
          /\ pc' = "Failed" => tries' = max_attempts]_vars
  /\ <>(~Waiting /\ pc # "Generating")

\* thirty attempts failed
C3_Witness ==
  /\ TimedOut /\ tries = 30 /\ sleeps = 58
  /\ self.host = <<"h">> /\ self.port = 2222
  /\ result[2].detail = <<"addr", <<"h">>, 2222>>

\* execute_script has returned
Executed ==
  /\ remote # None /\ remote["Executing"] # NotRun
  /\ remote["Executing"].at # "spawn"

\* what execute_script returned
ExecuteResult == IF LastPhase = "Executing" THEN result ELSE OkResult

\* the summary lines the markers among the lines ls call for
RECURSIVE Summaries(_, _)
Summaries(ls, total) ==
  IF ls = <<>> THEN <<>>
  ELSE LET m == parse_progress_marker(Head(ls))
           rest == Summaries(Tail(ls), total)
       IN IF m # None /\ m[2].kind \in {"Done", "Skip", "Fail"}
          THEN <<[step |-> m[2].step, total |-> total,
                  sign |-> CASE m[2].kind = "Done" -> "v"
                             [] m[2].kind = "Skip" -> "o"
                             [] OTHER -> "x",
                  desc |-> m[2].desc]>> \o rest
          ELSE rest

\* C4: when execute_script returns, the stream has been read to its end and
\* every marker read has been displayed; it returns the error carrying the
\* exit status exactly when the script exited with a status other than 0.
C4_ScriptFailedIffNonZero ==
  Executed =>
    LET o == remote["Executing"]
        failed == IsErr(ExecuteResult) /\ ExecuteResult[2].detail[1] = "status"
    IN /\ failed <=> (o.kind = "exit" /\ o.status # 0)
       /\ failed => ExecuteResult[2].detail = <<"status", o.status>>
       /\ current_spinner = None
       /\ printed = Summaries(received, total_steps)

\* a FAIL marker was displayed and the script exited with status 255
C4_Witness ==
  /\ Executed /\ pc = "Failed"
  /\ result[2].detail = <<"status", 255>>
  /\ Len(printed) = 1 /\ printed[1].sign = "x" /\ printed[1].step = 4
  /\ Len(received) = 3

\* /tmp/tengu-provision.sh is on the remote host: the upload wrote it
\* (cat > ... && chmod +x ... exited with 0) and rm -f has not removed it
ScriptOnRemote == Succeeded("Uploading") /\ ~Succeeded("CleaningUp")

\* the script ran and exited with a status other than 0
ScriptFailed ==
  remote["Executing"].kind = "exit" /\ remote["Executing"].status # 0

\* C28: the removal of the uploaded script is attempted only after the
\* script exited with status 0; when the upload fails or the script exits
\* with another status, provision returns the error and no removal has
\* been attempted, so that after a failed run the script is still on the
\* remote host.
C28_CleanupOnlyAfterSuccess ==
  /\ (pc = "CleaningUp" \/ remote["CleaningUp"] # NotRun) =>
       /\ Succeeded("Uploading") /\ Succeeded("Executing")
       /\ "CleaningUp" \in SeqToSet(phases)
  /\ (remote["Uploading"] # NotRun /\ ~Succeeded("Uploading")) =>
       /\ pc = "Failed" /\ IsErr(result)
       /\ remote["Executing"] = NotRun /\ remote["CleaningUp"] = NotRun
  /\ ScriptFailed =>
       /\ pc = "Failed" /\ IsErr(result)
       /\ remote["CleaningUp"] = NotRun /\ "CleaningUp" \notin SeqToSet(phases)
       /\ ScriptOnRemote

\* the script was uploaded and exited with status 255: provision has
\* returned, the script is still there
C28_Witness ==
  /\ pc = "Failed" /\ ScriptFailed /\ remote["Executing"].status = 255
  /\ remote["CleaningUp"] = NotRun /\ ScriptOnRemote
  /\ result[2].detail = <<"status", 255>>

\* a summary line of a FAIL marker was shown
FailShown == \E k \in 1..Len(printed) : printed[k].sign = "x"

\* C29: what execute_script returns is decided by the exit status alone,
\* whatever markers were received: success for status 0, also after a FAIL
\* marker; the error carrying the status for any other status, also when
\* no FAIL or COMPLETE marker was received.
C29_ResultByExitStatusOnly ==
  Executed =>
    LET o == remote["Executing"] IN
    ExecuteResult =
      CASE o.kind = "exit" /\ o.status = 0 -> OkResult
        [] o.kind = "exit" /\ o.status # 0 ->
             Err("Provisioning script failed with exit code: {status}",
                 <<"status", o.status>>)
        [] OTHER -> Err("Failed to wait for script", <<"io", o.io>>)

\* a FAIL marker was shown, the script exited with status 0, and
\* execute_script returned success: the cleanup has begun
C29_Witness ==
  /\ Executed /\ Succeeded("Executing") /\ FailShown
  /\ ExecuteResult = OkResult /\ pc = "CleaningUp"

\* no marker at all was received and the script exited with status 1
C29_WitnessFailure ==
  /\ Executed /\ remote["Executing"].status = 1 /\ printed = <<>>
  /\ \A k \in 1..Len(received) : parse_progress_marker(received[k]) = None
  /\ IsErr(ExecuteResult)

\* C14: at most one progress indicator is open at any time: a START closes
\* the indicator still open before it opens the one of its step, a DONE,
\* SKIP, FAIL or COMPLETE leaves none open, and none is open once the lines
\* have been read to the end, whatever they were.
C14_OneIndicatorAtATime ==
  /\ opened - closed = (IF current_spinner # None THEN 1 ELSE 0)
  /\ pc # "Reading" => current_spinner = None
  /\ (pc = "Reading" /\ received # <<>>) =>
       LET m == parse_progress_marker(received[Len(received)]) IN
       /\ (m # None /\ m[2].kind = "Start") =>
            current_spinner = Some([step |-> m[2].step, total |-> total_steps,
                                    msg |-> m[2].desc])
       /\ (m # None /\ m[2].kind # "Start") => current_spinner = None

\* a START read while the indicator of the START before it was open
C14_Witness ==
  /\ pc = "Reading" /\ Len(received) = 2
  /\ received[1] = MarkerLine(START, <<"3">>, <<"d">>) /\ received[2] = received[1]
  /\ opened = 2 /\ closed = 1 /\ current_spinner # None

\* the summary line each of the lines the remote side may send calls for
ExpectedSummary(line, total) ==
  CASE line = TENGU_STEP \o <<":", "D", "O", "N", "E", ":", "3", ":", "d">> ->
         <<[step |-> 3, total |-> total, sign |-> "v", desc |-> <<"d">>]>>
    [] line = TENGU_STEP \o <<":", "S", "K", "I", "P", ":", "1", ":", "u">> ->
         <<[step |-> 1, total |-> total, sign |-> "o", desc |-> <<"u">>]>>
    [] line = TENGU_STEP \o <<":", "F", "A", "I", "L", ":", "4", ":", "j", "\r">> ->
         <<[step |-> 4, total |-> total, sign |-> "x", desc |-> <<"j">>]>>
    [] OTHER -> <<>>

\* C15: the driver prints exactly one summary line for each DONE, SKIP or
\* FAIL marker read, with the marker's step index and description, in the
\* order read, and none for any other line; START:3 then DONE:3 gives one
\* indicator opened and closed once and one summary line, for step 3.
C15_OneSummaryPerMarker ==
  /\ printed = Concat([i \in 1..Len(received) |-> ExpectedSummary(received[i], total_steps)])
  /\ received = <<MarkerLine(START, <<"3">>, <<"d">>), MarkerLine(DONE, <<"3">>, <<"d">>)>>
       => /\ opened = 1 /\ closed = 1 /\ current_spinner = None
          /\ Len(printed) = 1 /\ printed[1].step = 3 /\ printed[1].desc = <<"d">>

\* START:3 and DONE:3 were read, then a COMPLETE
C15_Witness ==
  /\ Len(received) = 3
  /\ SubSeq(received, 1, 2) =
       <<MarkerLine(START, <<"3">>, <<"d">>), MarkerLine(DONE, <<"3">>, <<"d">>)>>
  /\ parse_progress_marker(received[3]) # None
  /\ parse_progress_marker(received[3])[2].kind = "Complete"
  /\ opened = 1 /\ closed = 1 /\ Len(printed) = 1 /\ printed[1].step = 3

\* the marker grammar: TENGU_STEP:<ACTION>:<index>[:<description>], the
\* index a decimal number (a sign '+' before it is read as part of it)
IsIndex(s) ==
  \/ s # <<>> /\ \A i \in 1..Len(s) : s[i] \in {"0", "1", "2", "3", "4", "5", "6", "7", "8", "9"}
  \/ /\ Len(s) >= 2 /\ s[1] = "+"
     /\ \A i \in 2..Len(s) : s[i] \in {"0", "1", "2", "3", "4", "5", "6", "7", "8", "9"}

MatchesGrammar(c) ==
  \E a \in {<<"S", "T", "A", "R", "T">>, <<"D", "O", "N", "E">>, <<"S", "K", "I", "P">>,
            <<"F", "A", "I", "L">>, <<"C", "O", "M", "P", "L", "E", "T", "E">>} :
    LET pre == <<"T", "E", "N", "G", "U", "_", "S", "T", "E", "P", ":">> \o a \o <<":">> IN
    /\ Len(c) > Len(pre) /\ SubSeq(c, 1, Len(pre)) = pre
    /\ \E k \in (Len(pre) + 1)..Len(c) :
         /\ IsIndex(SubSeq(c, Len(pre) + 1, k))
         /\ k = Len(c) \/ c[k + 1] = ":"

\* the line as it is matched: surrounding whitespace and escape sequences off
Cleaned(line) == strip_ansi_codes(trim(line))

RECURSIVE WellFormed(_)
WellFormed(s) ==
  IF s = <<>> THEN TRUE
  ELSE IF Head(s) # ESC THEN WellFormed(Tail(s))
  ELSE /\ Len(s) >= 2 /\ s[2] = "["
       /\ \E k \in 3..Len(s) :
            /\ s[k] \in Letters
            /\ \A j \in 3..(k - 1) : s[j] \notin Letters
            /\ WellFormed(SubSeq(s, k + 1, Len(s)))

\* C17: escape sequences are stripped before the marker is parsed: a line
\* and the same line without its escape sequences parse to the same result,
\* wherever in the line the sequences stand.
C17_StripThenParse ==
  (received # <<>> /\ WellFormed(received[Len(received)])) =>
    LET line == received[Len(received)] IN
    parse_progress_marker(line) = parse_progress_marker(strip_ansi_codes(line))

\* the line without its sequences ESC [ ... letter, all else kept in order
RECURSIVE WithoutSequences(_)
WithoutSequences(s) ==
  IF s = <<>> THEN <<>>
  ELSE IF /\ Head(s) = ESC /\ Len(s) >= 2 /\ s[2] = "["
          /\ \E k \in 3..Len(s) : s[k] \in Letters
       THEN LET k == CHOOSE i \in 3..Len(s) :
                       s[i] \in Letters /\ \A j \in 3..(i - 1) : s[j] \notin Letters
            IN WithoutSequences(SubSeq(s, k + 1, Len(s)))
       ELSE <<Head(s)>> \o WithoutSequences(Tail(s))

\* C27: strip_ansi_codes removes exactly the sequences ESC [ ... up to and
\* including the first letter and keeps every other character in order (so
\* a line without such a sequence comes back unchanged), and its result
\* has no character that the line has not.
C27_StripsExactlySequences ==
  received # <<>> =>
    LET line == received[Len(received)] IN
    /\ strip_ansi_codes(line) = WithoutSequences(line)
    /\ SeqToSet(strip_ansi_codes(line)) \subseteq SeqToSet(line)

\* the part of C27 that holds: the result is the line with characters
\* left out, and a line without ESC comes back unchanged
C27_NothingAdded ==
  received # <<>> =>
    LET line == received[Len(received)] IN
    /\ SeqToSet(strip_ansi_codes(line)) \subseteq SeqToSet(line)
    /\ Len(strip_ansi_codes(line)) <= Len(line)
    /\ ESC \notin SeqToSet(line) => strip_ansi_codes(line) = line

(***************************************************************************)
(* Properties of the manifest                                              *)
(***************************************************************************)
\* the commands that activate a service, and those that set up the database
ActivatesService(cmd) == cmd[1] = "or" /\ cmd[2][1] = "systemctl"
DatabaseCommand(cmd) ==
  LET heads == {"psql_create_database", "psql_create_user", "psql_grant_all",
                "psql_create_extension_if_not_exists"}
  IN cmd[1] \in heads \/ (cmd[1] = "or" /\ cmd[2][1] \in heads)

\* the place of a step in the order: 1 user, 2 base packages, 3 container
\* runtime, 4 database, 5 model runtime, 6 reverse proxy, 7 directories,
\* 8 files, 9 firewall, 10 service activation, 11 platform package,
\* 12 database bootstrap; own is the place of the activation of the
\* platform's own service
PhaseOfStep(s, own) ==
  CASE s.kind = "EnsureUser" -> 1
    [] s.kind = "InstallPackage" ->
         (IF s.name \in {"docker-ce", "docker-ce-cli", "containerd.io", "docker-compose-plugin"}
          THEN 3
          ELSE IF s.name \in {"postgresql-16", "postgresql-16-pgvector"} THEN 4 ELSE 2)
    [] s.kind = "InstallDebFromUrl" ->
         (IF s.name = "ollama" THEN 5 ELSE IF s.name = "tengu-caddy" THEN 6 ELSE 11)
    [] s.kind = "EnsureDirectory" -> 7
    [] s.kind = "WriteFile" -> 8
    [] s.kind = "EnsureFirewall" -> 9
    [] s.kind = "EnsureService" -> (IF s.name = "tengu" THEN own ELSE 10)
    [] s.kind = "RunCommand" ->
         (IF ActivatesService(s.command) THEN 10
          ELSE IF DatabaseCommand(s.command) THEN 12 ELSE 0)

\* the steps come phase after phase, no phase empty, none taken up again
InPhaseOrder(steps, own) ==
  /\ \A i \in 1..(Len(steps) - 1) :
       PhaseOfStep(steps[i], own) <= PhaseOfStep(steps[i + 1], own)
  /\ \A p \in 1..12 : \E i \in 1..Len(steps) : PhaseOfStep(steps[i], own) = p

\* C19 as stated: the steps of Manifest::tengu come in the order user, base
\* packages, repository-backed packages (container runtime, database),
\* URL-distributed packages (model runtime, reverse proxy), directories,
\* files, firewall, service activation, platform package, database
\* bootstrap, each phase complete before the next begins.
C19_PhaseOrderAsStated ==
  assembled # None => InPhaseOrder(assembled[2].steps, 10)

\* C19: the steps of Manifest::tengu come in that order, except that the
\* platform's own service is activated directly after the platform package
\* is installed, before the database bootstrap; every other service
\* activation precedes the platform package.
C19_PhaseOrder ==
  assembled # None =>
    LET steps == assembled[2].steps IN
    /\ InPhaseOrder(steps, 11)
    /\ \A i \in 1..Len(steps) :
         (steps[i].kind = "EnsureService" /\ steps[i].name = "tengu")
           => /\ i > 1 /\ steps[i - 1].kind = "InstallDebFromUrl"
              /\ steps[i - 1].name = "tengu"

\* the manifest of a configuration with two keys and no release
C19_Witness ==
  /\ assembled # None /\ config.release = "" /\ Len(config.ssh_keys) = 2
  /\ Len(assembled[2].steps) = 43
  /\ assembled[2].steps[39] = EnsureService_new("tengu")
  /\ assembled[2].steps[38].kind = "InstallDebFromUrl"

\* C20: each of the four database bootstrap steps of Manifest::tengu has a
\* guard, and the guard is a query of the database's catalogs.
C20_DatabaseStepsGuarded ==
  assembled # None =>
    LET steps == assembled[2].steps
        db == {i \in 1..Len(steps) :
                 steps[i].kind = "RunCommand" /\ DatabaseCommand(steps[i].command)}
    IN /\ Cardinality(db) = 4
       /\ \A i \in db :
            /\ check_command(steps[i]) # None
            /\ check_command(steps[i])[2][1] \in
                 {"psql_database_exists", "psql_role_exists", "psql_extension_exists",
                  "psql_has_privilege"}

(***************************************************************************)
(* Properties of the boot-time document                                    *)
(***************************************************************************)
\* the packages the fragments of the steps name
NamedPackages(steps) ==
  UNION {SeqToSet(to_cloud_init(steps[i]).packages) : i \in 1..Len(steps)}

\* C21: the document begins with the line "#cloud-config"; its package list
\* is in ascending order, holds no package twice, and holds every package a
\* step's fragment names, however often and in whatever order they come.
C21_SortedPackages ==
  out # <<>> =>
    LET packages == out[3].packages IN
    /\ out[1] = "#cloud-config" /\ out[2] = "\n"
    /\ \A i \in 1..(Len(packages) - 1) : str_lt(packages[i], packages[i + 1])
    /\ SeqToSet(packages) = NamedPackages(assembled[2].steps)

\* vim, curl, vim: the list is curl, vim
C21_Witness ==
  /\ out # <<>>
  /\ assembled[2].steps = <<InstallPackage_new("vim"), InstallPackage_new("curl"),
                            InstallPackage_new("vim")>>
  /\ out[3].packages = <<"curl", "vim">>

\* where the part of step i begins in a list put together from the parts
\* of the steps
RECURSIVE Before(_, _)
Before(parts, i) == IF i = 1 THEN 0 ELSE Before(parts, i - 1) + Len(parts[i - 1])

InStepOrder(list, parts) ==
  /\ Len(list) = Before(parts, Len(parts) + 1)
  /\ \A i \in 1..Len(parts) : \A k \in 1..Len(parts[i]) :
       list[Before(parts, i) + k] = parts[i][k]

\* C22: write_files and runcmd of the document are the file lists and the
\* command lists of the steps' fragments one after the other in step order,
\* nothing dropped, doubled or moved.
C22_FragmentsInStepOrder ==
  out # <<>> =>
    LET steps == assembled[2].steps IN
    /\ InStepOrder(out[3].runcmd, [i \in 1..Len(steps) |-> to_cloud_init(steps[i]).runcmd])
    /\ InStepOrder(out[3].write_files,
                   [i \in 1..Len(steps) |-> to_cloud_init(steps[i]).write_files])

\* the commands of a repository package, then the same service twice
C22_Witness ==
  /\ out # <<>> /\ Len(assembled[2].steps) = 3
  /\ assembled[2].steps[1].repository # None
  /\ assembled[2].steps[2] = EnsureService_new("docker")
  /\ assembled[2].steps[3] = EnsureService_new("docker")
  /\ Len(out[3].runcmd) = 3 + 2 * Len(to_bash(EnsureService_new("docker")))

\* other values of the two settings
ResendKeys == {"re_test", "re_other", ""}
NotifyEmails == {"notify@example.com", "ops@example.com"}

\* C30: the manifest does not depend on the Resend API key or on the
\* notification email: a configuration that differs only in them gives the
\* same steps, hence the same script and the same boot-time document.
C30_ResendAndNotifyUnused ==
  assembled # None =>
    \A r \in ResendKeys, n \in NotifyEmails :
      LET other == [config EXCEPT !.resend_api_key = r, !.notify_email = n]
          quiet == BashRenderer_new
          loud == verbose(BashRenderer_new, TRUE)
      IN /\ tengu(other).steps = assembled[2].steps
         /\ tengu(other) = assembled[2]
         /\ BashRenderer_render(quiet, tengu(other)) = BashRenderer_render(quiet, assembled[2])
         /\ BashRenderer_render(loud, tengu(other)) = BashRenderer_render(loud, assembled[2])
         /\ CloudInitRenderer_render(CloudInitRenderer_new, tengu(other))
              = CloudInitRenderer_render(CloudInitRenderer_new, assembled[2])
         /\ render_with_config(tengu(other), other)
              = render_with_config(assembled[2], config)

\* the manifest of a configuration without Resend key is that of the
\* configuration with another key and another notification email
C30_Witness ==
  /\ assembled # None /\ config.resend_api_key = "" /\ Len(config.ssh_keys) = 1
  /\ assembled[2] = tengu([config EXCEPT !.resend_api_key = "re_other",
                                         !.notify_email = "ops@example.com"])
  /\ Len(assembled[2].steps) = 43

\* C26: a run-command step with an unless predicate reports the predicate
\* as its guard and renders one command, guard || { command; }, so that
\* the command runs exactly when the predicate fails on the host; without
\* unless the step has no guard and its command runs on every application.
C26_UnlessGuardsCommand ==
  step.kind = "RunCommand" =>
    /\ check_command(step) = step.unless
    /\ IF step.unless # None
       THEN /\ to_bash(step) = << <<"or", step.unless[2], step.command>> >>
            /\ applied >= 1 =>
                 host1 = IF Test(step.unless[2], host0)
                         THEN host0 ELSE Exec(step.command, host0).h
            /\ applied = 2 =>
                 host = IF Test(step.unless[2], host1)
                        THEN host1 ELSE Exec(step.command, host1).h
       ELSE /\ check_command(step) = None
            /\ to_bash(step) = <<step.command>>
            /\ applied >= 1 => host1 = Exec(step.command, host0).h
            /\ applied = 2 => host = Exec(step.command, host1).h

\* the command ran the first time, when the predicate failed, and not the
\* second time, when it held
C26_Witness ==
  /\ step.kind = "RunCommand" /\ step.unless # None /\ applied = 2
  /\ ~Test(step.unless[2], host0) /\ host1 # host0
  /\ Test(step.unless[2], host1) /\ host = host1

\* a command without guard has run twice
C26_WitnessNoGuard ==
  /\ step.kind = "RunCommand" /\ step.unless = None /\ applied = 2
  /\ host1 # host0

\* upload_script has returned
Uploaded == remote # None /\ remote["Uploading"] # NotRun

\* C5: upload_script fails fatally whenever the upload fails, and whatever
\* ssh wrote to its stderr is carried by the error; it returns success only
\* when the remote command exited with status 0.
C5_UploadCarriesRemoteText ==
  Uploaded =>
    LET o == remote["Uploading"] IN
    /\ ("Executing" \in SeqToSet(phases)) <=> (o.kind = "exit" /\ o.status = 0)
    /\ ~(o.kind = "exit" /\ o.status = 0) =>
         /\ pc = "Failed" /\ IsErr(result)
         /\ o.stderr # <<>> => result[2].detail = <<"stderr", o.stderr>>

\* C6: when the script succeeded, provision returns success however the
\* removal of the uploaded script went; a failed removal is a warning.
C6_CleanupNeverFatal ==
  (remote # None /\ remote["CleaningUp"] # NotRun) =>
    /\ pc = "Done" /\ result = OkResult
    /\ ~Succeeded("CleaningUp") => Len(warnings) = 1

====
